---- MODULE Spec2Model ----
(***************************************************************************)
(* Photo catalogue: the SQLite store kept by DBManager (db_manager.py),    *)
(* the reference-code counter of ReferenceService (reference_service.py)   *)
(* and the import loop of MainWindow.import_files_to_db (main_window.py).  *)
(* Paths, tag names, metadata and reference codes are texts, kept as       *)
(* sequences of characters, so that GROUP_CONCAT and split, LIKE, the      *)
(* {n:06d} format, int() and strptime are computed as the code computes    *)
(* them.                                                                   *)
(*                                                                         *)
(* Every DBManager method runs its statements inside `with _get_cursor()`: *)
(* a fresh connection, the statements, then commit; any exception rolls    *)
(* the connection back and is re-raised as DBError.  A method is one       *)
(* action: the statements are applied in order to a working copy of the    *)
(* database and _get_cursor decides whether the working copy or the        *)
(* database as it was before the call is the committed result.             *)
(***************************************************************************)
EXTENDS Integers, Sequences, FiniteSets, TLC

VARIABLES
    db,             \* the committed contents of the file at DBManager.db_path
    counter,        \* ReferenceService.counter
    last_reset,     \* ReferenceService._last_reset
    today,          \* the date part of what datetime.now() returns
    clock,          \* the time-of-day part of what datetime.now() returns
    image_cache,    \* MainWindow.image_cache: cache and access_order
    scan_dialog,    \* the ScanDriveDialog and its ImageScannerThread
    last            \* the last call: its arguments, return value, exception

\* the objects of the user interface that hold no catalogue data
gui == <<image_cache, scan_dialog>>

vars == <<db, counter, last_reset, today, clock, image_cache, scan_dialog,
          last>>

----------------------------------------------------------------------------
(* Bounds of the model *)

MaxImageId == 2         \* rows ever inserted into images
MaxLocationId == 2      \* rows ever inserted into image_locations
MaxDay == 2             \* calendar days the clock runs through
MaxImport == 2          \* files selected for one import
MaxCounter == 30        \* codes one allocator hands out in one day
MaxSegments == 3        \* segments of a code handed to parse_code
MaxClock == 1           \* readings the clock runs through in one day
MaxScanFiles == 2       \* files under a scanned folder
MaxCacheSize == 2       \* max_size of a preview cache under test

Hashes == {"H1", "H2"}
NoFile == "NoFile"

\* Texts are sequences of characters: "/a.jpg", "/b,c.jpg",
\* "sunset", "beach", "{}" and "{\"Make\": \"sunset\"}".
Paths ==
    {<<"/", "a", ".", "j", "p", "g">>,
     <<"/", "b", ",", "c", ".", "j", "p", "g">>}
TagNames == {<<"s", "u", "n", "s", "e", "t">>}
DialogTagNames == TagNames \cup {<<"b", "e", "a", "c", "h">>}
EmptyMetadata == <<"{", "}">>              \* json.dumps(metadata or {})
Metadatas ==
    {EmptyMetadata,
     <<"{", "\"", "M", "a", "k", "e", "\"", ":", " ", "\"", "s", "u", "n", "s", "e", "t", "\"", "}">>}
NoPath == <<"NULL">>                   \* SQL NULL, which is no str

ImageIds == 1..MaxImageId
TagIds == 1..Cardinality(TagNames)    \* tags.name is UNIQUE
Days == 1..MaxDay

----------------------------------------------------------------------------
(* Text.  A str is the sequence of its characters, each character a        *)
(* string of length one.                                                   *)

DigitChars == <<"0", "1", "2", "3", "4", "5", "6", "7", "8", "9">>
UpperChars == <<"A", "B", "C", "D", "E", "F", "G", "H", "I", "J", "K", "L", "M",
                "N", "O", "P", "Q", "R", "S", "T", "U", "V", "W", "X", "Y", "Z">>
LowerChars == <<"a", "b", "c", "d", "e", "f", "g", "h", "i", "j", "k", "l", "m",
                "n", "o", "p", "q", "r", "s", "t", "u", "v", "w", "x", "y", "z">>

IsDigit(c) == \E i \in 1..10 : DigitChars[i] = c
DigitValue(c) == (CHOOSE i \in 1..10 : DigitChars[i] = c) - 1
IsSpace(c) == c \in {" ", "\t", "\n", "\r"}

\* str(n) for n >= 0
RECURSIVE Decimal(_)
Decimal(n) ==
    IF n < 10 THEN <<DigitChars[n + 1]>>
    ELSE Decimal(n \div 10) \o <<DigitChars[(n % 10) + 1]>>

\* the 0-fill of a format spec such as {n:06d}: zeros on the left up to the
\* width, nothing cut off
RECURSIVE ZeroFill(_, _)
ZeroFill(s, width) ==
    IF Len(s) >= width THEN s ELSE ZeroFill(<<"0">> \o s, width)

\* s.split(sep) for a separator of one character
RECURSIVE Split(_, _)
Split(s, sep) ==
    IF \A i \in 1..Len(s) : s[i] # sep THEN <<s>>
    ELSE LET k == CHOOSE i \in 1..Len(s) :
                    s[i] = sep /\ \A j \in 1..(i - 1) : s[j] # sep
         IN  <<SubSeq(s, 1, k - 1)>> \o Split(SubSeq(s, k + 1, Len(s)), sep)

\* sep.join(parts), which is also what GROUP_CONCAT builds with sep = ","
RECURSIVE Join(_, _)
Join(parts, sep) ==
    IF Len(parts) = 0 THEN <<>>
    ELSE IF Len(parts) = 1 THEN parts[1]
    ELSE parts[1] \o <<sep>> \o Join(Tail(parts), sep)

----------------------------------------------------------------------------
(* ReferenceService                                                        *)

DefaultPrefix == <<"R", "E", "F">>

\* f"{self.prefix}-{self.counter:06d}"
OrderedCode(prefix, n) == prefix \o <<"-">> \o ZeroFill(Decimal(n), 6)

\* generate_ordered_code that never increments the counter.
generate_ordered_code_stuck(cnt, reset, current_date) ==
    LET c == IF current_date # reset THEN 0 ELSE cnt
    IN  [counter |-> IF c = 0 THEN 1 ELSE c, last_reset |-> current_date,
         code |-> OrderedCode(DefaultPrefix, IF c = 0 THEN 1 ELSE c)]

\* generate_ordered_code that never looks at the date.
generate_ordered_code_no_reset(cnt, reset, current_date) ==
    [counter |-> cnt + 1, last_reset |-> reset,
     code |-> OrderedCode(DefaultPrefix, cnt + 1)]

\* generate_ordered_code() without date_prefix: the counter restarts when
\* the date has changed since _last_reset, then counts up.
generate_ordered_code(cnt, reset, current_date) ==
    LET c == IF current_date # reset THEN 0 ELSE cnt
    IN  [counter |-> c + 1, last_reset |-> current_date,
         code |-> OrderedCode(DefaultPrefix, c + 1)]

RefCodes == {OrderedCode(DefaultPrefix, 1)}

----------------------------------------------------------------------------
(* The schema and the SQL statements.  A statement takes the working copy  *)
(* of the database and gives the new working copy, whether it raised, and  *)
(* cursor.lastrowid.                                                       *)

\* Runs in which the storage layer itself never fails.
NoFault == {0}

EmptyDb ==
    [images |-> {}, image_locations |-> {}, tags |-> {}, image_tags |-> {},
     sqlite_sequence |-> [images |-> 0, image_locations |-> 0, tags |-> 0]]

Stmt(d, ok, rowid) == [db |-> d, ok |-> ok, lastrowid |-> rowid]

\* The images table declared without UNIQUE on md5_checksum.
Md5UniqueDropped(d, md5_checksum) == TRUE

\* images.md5_checksum TEXT UNIQUE
Md5Unique(d, md5_checksum) ==
    \A i \in d.images : i.md5_checksum # md5_checksum

\* tags.name TEXT UNIQUE
TagNameUnique(d, name) ==
    \A t \in d.tags : t.name # name

\* image_tags PRIMARY KEY (image_id, tag_id)
ImageTagUnique(d, image_id, tag_id) ==
    \A it \in d.image_tags : ~(it.image_id = image_id /\ it.tag_id = tag_id)

\* id INTEGER PRIMARY KEY AUTOINCREMENT: one more than the largest id the
\* table has ever held
NextId(d, table) == d.sqlite_sequence[table] + 1

\* INSERT OR REPLACE INTO images: the colliding row gives way to the new one.
InsertImageOrReplace(d, md5_checksum, reference_code, metadata, now) ==
    LET id == NextId(d, "images")
        row == [id |-> id, md5_checksum |-> md5_checksum,
                reference_code |-> reference_code,
                project_path |-> NoPath, metadata |-> metadata,
                created_at |-> now]
        kept == {i \in d.images : i.md5_checksum # md5_checksum}
    IN  Stmt([d EXCEPT !.images = kept \cup {row},
                       !.sqlite_sequence.images = id], TRUE, id)

\* INSERT INTO images (md5_checksum, reference_code, metadata, created_at,
\* updated_at)
InsertImage(d, md5_checksum, reference_code, metadata, now) ==
    IF ~Md5Unique(d, md5_checksum)
    THEN Stmt(d, FALSE, 0)                       \* sqlite3.IntegrityError
    ELSE LET id == NextId(d, "images")
             row == [id |-> id, md5_checksum |-> md5_checksum,
                     reference_code |-> reference_code,
                     project_path |-> NoPath, metadata |-> metadata,
                     created_at |-> now]
         IN  Stmt([d EXCEPT !.images = @ \cup {row},
                            !.sqlite_sequence.images = id], TRUE, id)

\* INSERT INTO image_locations (image_id, file_path, is_verified, ...)
\* No constraint on (image_id, file_path); foreign keys are declared but
\* the connection never turns PRAGMA foreign_keys on.
InsertLocation(d, image_id, file_path, is_verified) ==
    LET id == NextId(d, "image_locations")
        row == [id |-> id, image_id |-> image_id, file_path |-> file_path,
                is_verified |-> is_verified]
    IN  Stmt([d EXCEPT !.image_locations = @ \cup {row},
                       !.sqlite_sequence.image_locations = id], TRUE, id)

\* _get_cursor without the rollback: what the body wrote before it raised
\* stays.
GetCursorNoRollback(before, work, raised) == work

\* The outcome of a with-block of _get_cursor: commit when the body ran
\* through, rollback when anything in it raised.
GetCursor(before, work, raised) ==
    IF raised THEN before ELSE work

\* What a call leaves behind: the committed database, the return value and
\* the exception that reached the caller.
Outcome(d, ret, exc) == [db |-> d, ret |-> ret, exc |-> exc]

NoException == "none"
DBError == "DBError"
None == [none |-> TRUE]

----------------------------------------------------------------------------
(* ReferenceService.parse_code and validate_code                           *)

\* The values parse_code and validate_code may be handed.
PyStr(chars) == [type |-> "str", chars |-> chars]
PyNone == [type |-> "NoneType"]
PyInt(n) == [type |-> "int", int |-> n]

RECURSIVE LStrip(_)
LStrip(text) ==
    IF Len(text) > 0 /\ IsSpace(text[1]) THEN LStrip(Tail(text)) ELSE text

RECURSIVE RStrip(_)
RStrip(text) ==
    IF Len(text) > 0 /\ IsSpace(text[Len(text)])
    THEN RStrip(SubSeq(text, 1, Len(text) - 1)) ELSE text

RECURSIVE DecimalValue(_)
DecimalValue(digits) ==
    IF Len(digits) = 0 THEN 0
    ELSE DecimalValue(SubSeq(digits, 1, Len(digits) - 1)) * 10
            + DigitValue(digits[Len(digits)])

\* int(text): white space around, an optional sign, then digits that single
\* underscores may separate; ok = FALSE stands for ValueError.
IntParse(text) ==
    LET stripped == RStrip(LStrip(text))
        signed == Len(stripped) > 0 /\ stripped[1] \in {"+", "-"}
        body == IF signed THEN Tail(stripped) ELSE stripped
        ok == /\ Len(body) > 0
              /\ IsDigit(body[1]) /\ IsDigit(body[Len(body)])
              /\ \A k \in 1..Len(body) : IsDigit(body[k]) \/ body[k] = "_"
              /\ \A k \in 1..(Len(body) - 1) :
                    ~(body[k] = "_" /\ body[k + 1] = "_")
        magnitude == DecimalValue(SelectSeq(body, IsDigit))
    IN  [ok |-> ok,
         value |-> IF ~ok THEN 0
                   ELSE IF stripped[1] = "-" THEN 0 - magnitude
                   ELSE magnitude]

IsLeap(year) ==
    year % 4 = 0 /\ (year % 100 # 0 \/ year % 400 = 0)

DaysInMonth(year, month) ==
    IF month = 2 THEN (IF IsLeap(year) THEN 29 ELSE 28)
    ELSE IF month \in {4, 6, 9, 11} THEN 30 ELSE 31

\* the character at position k, or "" past the end
At(text, k) == IF k <= Len(text) THEN text[k] ELSE ""

\* datetime.strptime(text, "%Y%m%d").  The format is matched as the regular
\* expression (\d\d\d\d)(1[0-2]|0[1-9]|[1-9])(3[0-1]|[1-2]\d|0[1-9]|[1-9]| [1-9]),
\* alternatives tried from the left; text left over after the match and a
\* day the month does not have are ValueError (ok = FALSE).
Strptime(text) ==
    LET rest == SubSeq(text, 5, Len(text))
        DayLen(s) ==
            IF At(s, 1) = "3" /\ At(s, 2) \in {"0", "1"} THEN 2
            ELSE IF At(s, 1) \in {"1", "2"} /\ IsDigit(At(s, 2)) THEN 2
            ELSE IF At(s, 1) = "0" /\ IsDigit(At(s, 2)) /\ At(s, 2) # "0" THEN 2
            ELSE IF IsDigit(At(s, 1)) /\ At(s, 1) # "0" THEN 1
            ELSE IF At(s, 1) = " " /\ IsDigit(At(s, 2)) /\ At(s, 2) # "0" THEN 2
            ELSE 0
        After(n) == SubSeq(rest, n + 1, Len(rest))
        month_len ==
            IF At(rest, 1) = "1" /\ At(rest, 2) \in {"0", "1", "2"}
                /\ DayLen(After(2)) > 0 THEN 2
            ELSE IF At(rest, 1) = "0" /\ IsDigit(At(rest, 2))
                /\ At(rest, 2) # "0" /\ DayLen(After(2)) > 0 THEN 2
            ELSE IF IsDigit(At(rest, 1)) /\ At(rest, 1) # "0"
                /\ DayLen(After(1)) > 0 THEN 1
            ELSE 0
        matched == /\ Len(text) >= 4
                   /\ \A k \in 1..4 : IsDigit(text[k])
                   /\ month_len > 0
        day_len == DayLen(After(month_len))
        year == DecimalValue(SubSeq(text, 1, 4))
        month == DecimalValue(SubSeq(rest, 1, month_len))
        day == IntParse(SubSeq(After(month_len), 1, day_len)).value
    IN  [ok |-> /\ matched
                /\ 4 + month_len + day_len = Len(text)
                /\ year >= 1
                /\ day <= DaysInMonth(year, month)]

AttributeError == "AttributeError"

\* What a call of the service leaves behind: its return value and the
\* exception that reached the caller.
Returned(ret, exc) == [ret |-> ret, exc |-> exc]

\* parse_code without the test of the prefix.
parse_code_any_prefix(prefix, code) ==
    IF code.type # "str" THEN Returned(None, AttributeError)
    ELSE LET parts == Split(code.chars, "-")
             unknown == [original |-> code.chars, type |-> "unknown",
                         components |-> parts]
         IN  Returned(
                IF Len(parts) = 2
                THEN IF IntParse(parts[2]).ok
                     THEN [original |-> code.chars, type |-> "ordered",
                           components |-> parts,
                           number |-> IntParse(parts[2]).value]
                     ELSE unknown
                ELSE IF Len(parts) = 3 /\ Strptime(parts[2]).ok
                THEN [original |-> code.chars, type |-> "timestamp",
                      components |-> parts, date |-> parts[2],
                      time |-> parts[3]]
                ELSE unknown,
                NoException)

\* parse_code.  A value without split(), which is any value that is not a
\* str, raises AttributeError.
parse_code(prefix, code) ==
    IF code.type # "str" THEN Returned(None, AttributeError)
    ELSE LET parts == Split(code.chars, "-")
             unknown == [original |-> code.chars, type |-> "unknown",
                         components |-> parts]
         IN  Returned(
                IF Len(parts) = 2 /\ parts[1] = prefix
                THEN IF IntParse(parts[2]).ok
                     THEN [original |-> code.chars, type |-> "ordered",
                           components |-> parts,
                           number |-> IntParse(parts[2]).value]
                     ELSE unknown
                ELSE IF Len(parts) = 3 /\ Strptime(parts[2]).ok
                THEN [original |-> code.chars, type |-> "timestamp",
                      components |-> parts, date |-> parts[2],
                      time |-> parts[3]]
                ELSE unknown,
                NoException)

\* bool(code)
PyTruthy(code) ==
    IF code.type = "str" THEN Len(code.chars) > 0
    ELSE IF code.type = "int" THEN code.int # 0
    ELSE FALSE

validate_code(prefix, code) ==
    IF ~PyTruthy(code) \/ code.type # "str"
    THEN Returned(FALSE, NoException)
    ELSE LET parsed == parse_code(prefix, code)
         IN  IF parsed.exc # NoException THEN Returned(None, parsed.exc)
             ELSE Returned(parsed.ret.type # "unknown", NoException)

----------------------------------------------------------------------------
\* datetime.now().isoformat(): date and time of day, compared date first as
\* the text is.
Now(date, time) == [date |-> date, time |-> time]

(* DBManager.add_image.  fault = k makes the k-th step of the with-block   *)
(* raise (1, 2: the two INSERTs, 3: the commit); fault = 0 is a run        *)
(* without an underlying fault.                                            *)

\* add_image that leaves the location to a later add_image_location call.
add_image_no_location(d, file_path, md5_checksum, reference_code, metadata, now, fault) ==
    LET s1 == IF fault = 1 THEN Stmt(d, FALSE, 0)
              ELSE InsertImage(d, md5_checksum, reference_code, metadata, now)
        raised == ~s1.ok \/ fault \in {2, 3}
    IN  Outcome(GetCursor(d, s1.db, raised),
                IF raised THEN 0 ELSE s1.lastrowid,
                IF raised THEN DBError ELSE NoException)

add_image(d, file_path, md5_checksum, reference_code, metadata, now, fault) ==
    LET s1 == IF fault = 1 THEN Stmt(d, FALSE, 0)
              ELSE InsertImage(d, md5_checksum, reference_code, metadata, now)
        image_id == s1.lastrowid
        s2 == IF ~s1.ok THEN s1
              ELSE IF fault = 2 THEN Stmt(s1.db, FALSE, 0)
              ELSE InsertLocation(s1.db, image_id, file_path, TRUE)
        raised == ~s2.ok \/ fault = 3
    IN  Outcome(GetCursor(d, s2.db, raised),
                IF raised THEN 0 ELSE image_id,
                IF raised THEN DBError ELSE NoException)

\* The model stops inserting when the tables have held their bounded number
\* of rows.
WithinBounds(d) ==
    /\ d.sqlite_sequence.images <= MaxImageId
    /\ d.sqlite_sequence.image_locations <= MaxLocationId

\* The callers of add_image_location and add_tag_to_image take the image id
\* from a row they have just read (get_image_by_md5, the table of images).
KnownImageIds(d) == {i.id : i \in d.images}

AddImage(faults) ==
    \E file_path \in Paths, md5_checksum \in Hashes,
       reference_code \in RefCodes, metadata \in {EmptyMetadata},
       fault \in faults :
        LET r == add_image(db, file_path, md5_checksum, reference_code,
                           metadata, Now(today, clock), fault)
        IN  /\ WithinBounds(r.db)
            /\ db' = r.db
            /\ last' = [op |-> "add_image", file_path |-> file_path,
                        md5_checksum |-> md5_checksum, fault |-> fault,
                        ret |-> r.ret, exc |-> r.exc]
            /\ UNCHANGED <<counter, last_reset, today, clock, gui>>

----------------------------------------------------------------------------
(* DBManager.get_image_by_md5: the image row joined with its locations,    *)
(* or None.  GROUP_CONCAT joins the paths of the image's location rows     *)
(* with commas, here in rowid order, and the method splits the text at     *)
(* its commas again.                                                       *)

RECURSIVE PathsInRowOrder(_)
PathsInRowOrder(rows) ==
    IF rows = {} THEN <<>>
    ELSE LET first == CHOOSE r \in rows : \A o \in rows : r.id <= o.id
         IN  <<first.file_path>> \o PathsInRowOrder(rows \ {first})

LocationsOf(d, image_id) ==
    {l \in d.image_locations : l.image_id = image_id}

\* GROUP_CONCAT(il.file_path): NULL when the group has no non-NULL value
GroupConcat(values) ==
    IF Len(values) = 0 THEN NoPath ELSE Join(values, ",")

\* result['locations'].split(',') if result['locations'] else []
SplitLocations(locations) ==
    IF locations = NoPath \/ Len(locations) = 0 THEN <<>>
    ELSE Split(locations, ",")

get_image_by_md5(d, md5_checksum) ==
    LET rows == {i \in d.images : i.md5_checksum = md5_checksum}
    IN  IF rows = {} THEN None
        ELSE LET row == CHOOSE i \in rows : TRUE          \* fetchone()
             IN  [id |-> row.id, md5_checksum |-> row.md5_checksum,
                  reference_code |-> row.reference_code,
                  project_path |-> row.project_path,
                  metadata |-> row.metadata,
                  locations |->
                      SplitLocations(
                          GroupConcat(PathsInRowOrder(LocationsOf(d, row.id))))]

----------------------------------------------------------------------------
(* DBManager.search_images.  Each branch is one SELECT over a join; the    *)
(* joined row is kept as the image with the columns the WHERE clause       *)
(* reads, a column being SqlNull where a LEFT JOIN found no partner.  The  *)
(* rows come back in no promised order and are kept as a set.              *)

SqlNull == NoPath

LowerOf ==
    [c \in {UpperChars[k] : k \in 1..26} |->
        LowerChars[CHOOSE k \in 1..26 : UpperChars[k] = c]]

Lower(c) == IF c \in DOMAIN LowerOf THEN LowerOf[c] ELSE c

\* text LIKE pattern as SQLite evaluates it: % stands for any run of
\* characters, _ for any one character, ASCII letters match in either case.
RECURSIVE Like(_, _)
Like(text, pattern) ==
    IF Len(pattern) = 0 THEN Len(text) = 0
    ELSE IF pattern[1] = "%"
    THEN \/ Like(text, Tail(pattern))
         \/ Len(text) > 0 /\ Like(Tail(text), pattern)
    ELSE /\ Len(text) > 0
         /\ pattern[1] = "_" \/ Lower(text[1]) = Lower(pattern[1])
         /\ Like(Tail(text), Tail(pattern))

\* column LIKE ? in a WHERE clause: NULL LIKE ? is not true
WhereLike(column, pattern) ==
    column # SqlNull /\ Like(column, pattern)

\* images i JOIN image_locations il ON i.id = il.image_id
JoinLocations(d, i) ==
    {l.file_path : l \in LocationsOf(d, i.id)}

\* images i LEFT JOIN image_locations il ON i.id = il.image_id
LeftJoinLocations(d, i) ==
    IF JoinLocations(d, i) = {} THEN {SqlNull} ELSE JoinLocations(d, i)

\* ... JOIN image_tags it ON i.id = it.image_id JOIN tags t ON it.tag_id = t.id
JoinTags(d, i) ==
    {t.name : t \in {u \in d.tags :
                        \E it \in d.image_tags :
                            it.image_id = i.id /\ it.tag_id = u.id}}

\* ... LEFT JOIN image_tags it ON i.id = it.image_id
\*     LEFT JOIN tags t ON it.tag_id = t.id
LeftJoinTags(d, i) ==
    LET its == {it \in d.image_tags : it.image_id = i.id}
        NamesOf(it) == {t.name : t \in {u \in d.tags : u.id = it.tag_id}}
    IN  IF its = {} THEN {SqlNull}
        ELSE UNION {IF NamesOf(it) = {} THEN {SqlNull} ELSE NamesOf(it)
                    : it \in its}

\* search_images whose 'all' branch joins with JOIN instead of LEFT JOIN.
search_images_inner(d, query, search_type) ==
    LET pattern == <<"%">> \o query \o <<"%">>
    IN  IF search_type = "all"
        THEN {r.image : r \in
                {x \in UNION {[image : {i}, file_path : JoinLocations(d, i),
                               name : JoinTags(d, i)] : i \in d.images} :
                    \/ WhereLike(x.file_path, pattern)
                    \/ WhereLike(x.name, pattern)
                    \/ WhereLike(x.image.metadata, pattern)}}
        ELSE IF search_type = "filename"
        THEN {i \in d.images :
                \E f \in JoinLocations(d, i) : WhereLike(f, pattern)}
        ELSE IF search_type = "tags"
        THEN {i \in d.images : \E n \in JoinTags(d, i) : WhereLike(n, pattern)}
        ELSE {i \in d.images : WhereLike(i.metadata, pattern)}

search_images(d, query, search_type) ==
    LET pattern == <<"%">> \o query \o <<"%">>
    IN  IF search_type = "all"
        THEN {r.image : r \in
                {x \in UNION {[image : {i}, file_path : LeftJoinLocations(d, i),
                               name : LeftJoinTags(d, i)] : i \in d.images} :
                    \/ WhereLike(x.file_path, pattern)
                    \/ WhereLike(x.name, pattern)
                    \/ WhereLike(x.image.metadata, pattern)}}
        ELSE IF search_type = "filename"
        THEN {r.image : r \in
                {x \in UNION {[image : {i}, file_path : JoinLocations(d, i)]
                              : i \in d.images} :
                    WhereLike(x.file_path, pattern)}}
        ELSE IF search_type = "tags"
        THEN {r.image : r \in
                {x \in UNION {[image : {i}, name : JoinTags(d, i)]
                              : i \in d.images} :
                    WhereLike(x.name, pattern)}}
        ELSE {i \in d.images : WhereLike(i.metadata, pattern)}

\* What a user types into the search box: "sunset", "b,c", "SUN", "_".
Queries ==
    {<<"s", "u", "n", "s", "e", "t">>, <<"b", ",", "c">>,
     <<"S", "U", "N">>, <<"_">>}

----------------------------------------------------------------------------
(* DBManager.get_all_images_with_tags: one SELECT over images LEFT JOIN    *)
(* image_locations LEFT JOIN image_tags LEFT JOIN tags, GROUP BY i.id,     *)
(* ORDER BY i.created_at DESC, then the loop that splits the concatenated  *)
(* columns of each row.  Rows with equal created_at come in an order the   *)
(* query does not promise, so the method is kept as the set of lists it    *)
(* may return.                                                             *)

\* a < b for two isoformat() texts
Earlier(a, b) ==
    \/ a.date < b.date
    \/ a.date = b.date /\ a.time < b.time

\* ORDER BY created_at ASC
OrderByCreatedAtAsc(rows) ==
    {order \in [1..Cardinality(rows) -> rows] :
        /\ \A k, j \in DOMAIN order : k # j => order[k] # order[j]
        /\ \A k, j \in DOMAIN order :
            k < j => ~Earlier(order[j].created_at, order[k].created_at)}

\* ORDER BY created_at DESC
OrderByCreatedAtDesc(rows) ==
    {order \in [1..Cardinality(rows) -> rows] :
        /\ \A k, j \in DOMAIN order : k # j => order[k] # order[j]
        /\ \A k, j \in DOMAIN order :
            k < j => ~Earlier(order[k].created_at, order[j].created_at)}

RECURSIVE TagColumnsInRowOrder(_, _)
TagColumnsInRowOrder(d, its) ==
    IF its = {} THEN <<>>
    ELSE LET first == CHOOSE r \in its : \A o \in its : r.tag_id <= o.tag_id
             ts == {t \in d.tags : t.id = first.tag_id}
             columns == IF ts = {} THEN [id |-> SqlNull, name |-> SqlNull]
                        ELSE [id |-> Decimal((CHOOSE t \in ts : TRUE).id),
                              name |-> (CHOOSE t \in ts : TRUE).name]
         IN  <<columns>> \o TagColumnsInRowOrder(d, its \ {first})

\* The joined rows of one image: each location row, or one NULL, with each
\* image_tags row and its tag, or one NULL.
JoinedRows(d, i) ==
    LET paths == PathsInRowOrder(LocationsOf(d, i.id))
        ls == IF Len(paths) = 0 THEN <<SqlNull>> ELSE paths
        tags == TagColumnsInRowOrder(
                    d, {it \in d.image_tags : it.image_id = i.id})
        ts == IF Len(tags) = 0 THEN <<[id |-> SqlNull, name |-> SqlNull]>>
              ELSE tags
    IN  [k \in 1..(Len(ls) * Len(ts)) |->
            [file_path |-> ls[((k - 1) \div Len(ts)) + 1],
             tag_id |-> ts[((k - 1) % Len(ts)) + 1].id,
             tag_name |-> ts[((k - 1) % Len(ts)) + 1].name]]

NotNull(value) == value # SqlNull

\* GROUP_CONCAT(column) over the joined rows of a group
GroupConcatColumn(values) == GroupConcat(SelectSeq(values, NotNull))

Truthy(text) == text # SqlNull /\ Len(text) > 0

\* One (image, tags) pair of the result.
ListingEntry(d, i) ==
    LET rows == JoinedRows(d, i)
        locations == GroupConcatColumn([k \in DOMAIN rows |-> rows[k].file_path])
        tag_ids == GroupConcatColumn([k \in DOMAIN rows |-> rows[k].tag_id])
        tag_names == GroupConcatColumn([k \in DOMAIN rows |-> rows[k].tag_name])
        ids == Split(tag_ids, ",")
        names == Split(tag_names, ",")
        zipped == IF Len(ids) < Len(names) THEN Len(ids) ELSE Len(names)
    IN  [image |-> [id |-> i.id, md5_checksum |-> i.md5_checksum,
                    reference_code |-> i.reference_code,
                    project_path |-> i.project_path,
                    metadata |-> i.metadata, created_at |-> i.created_at,
                    locations |-> SplitLocations(locations)],
         tags |-> IF Truthy(tag_ids) /\ Truthy(tag_names)
                  THEN [k \in 1..zipped |->
                            [id |-> IntParse(ids[k]).value, name |-> names[k]]]
                  ELSE <<>>]

get_all_images_with_tags(d) ==
    {[k \in DOMAIN order |-> ListingEntry(d, order[k])] :
        order \in OrderByCreatedAtDesc(d.images)}

----------------------------------------------------------------------------
(* DBManager.add_image_location: one INSERT (fault 1) and the commit (2).  *)
(* Its callers pass is_verified = True, which is also the default.         *)

add_image_location(d, image_id, file_path, is_verified, fault) ==
    LET s1 == IF fault = 1 THEN Stmt(d, FALSE, 0)
              ELSE InsertLocation(d, image_id, file_path, is_verified)
        raised == ~s1.ok \/ fault = 2
    IN  Outcome(GetCursor(d, s1.db, raised), None,
                IF raised THEN DBError ELSE NoException)

AddImageLocation(faults) ==
    \E image_id \in KnownImageIds(db), file_path \in Paths,
       is_verified \in {TRUE}, fault \in faults :
        LET r == add_image_location(db, image_id, file_path, is_verified,
                                    fault)
        IN  /\ WithinBounds(r.db)
            /\ db' = r.db
            /\ last' = [op |-> "add_image_location", image_id |-> image_id,
                        file_path |-> file_path, fault |-> fault,
                        exc |-> r.exc]
            /\ UNCHANGED <<counter, last_reset, today, clock, gui>>

----------------------------------------------------------------------------
(* DBManager.verify_location: UPDATE ... SET is_verified = 1 or DELETE,    *)
(* both WHERE image_id = ? AND file_path = ?  (fault 1), then commit (2).  *)

UpdateLocationVerified(d, image_id, file_path) ==
    Stmt([d EXCEPT !.image_locations =
            {IF l.image_id = image_id /\ l.file_path = file_path
             THEN [l EXCEPT !.is_verified = TRUE] ELSE l : l \in @}],
         TRUE, 0)

\* DELETE FROM image_locations WHERE image_id = ?  (the path forgotten)
DeleteLocationAnyPath(d, image_id, file_path) ==
    Stmt([d EXCEPT !.image_locations = {l \in @ : l.image_id # image_id}],
         TRUE, 0)

DeleteLocation(d, image_id, file_path) ==
    Stmt([d EXCEPT !.image_locations =
            {l \in @ : ~(l.image_id = image_id /\ l.file_path = file_path)}],
         TRUE, 0)

\* verify_location that treats "no row matched" as a failure.
verify_location_strict(d, image_id, file_path, exists, fault) ==
    LET s1 == IF fault = 1 THEN Stmt(d, FALSE, 0)
              ELSE IF exists THEN UpdateLocationVerified(d, image_id, file_path)
              ELSE DeleteLocation(d, image_id, file_path)
        nomatch == \A l \in d.image_locations :
                      ~(l.image_id = image_id /\ l.file_path = file_path)
        raised == ~s1.ok \/ fault = 2 \/ nomatch
    IN  Outcome(GetCursor(d, s1.db, raised), None,
                IF raised THEN DBError ELSE NoException)

verify_location(d, image_id, file_path, exists, fault) ==
    LET s1 == IF fault = 1 THEN Stmt(d, FALSE, 0)
              ELSE IF exists THEN UpdateLocationVerified(d, image_id, file_path)
              ELSE DeleteLocation(d, image_id, file_path)
        raised == ~s1.ok \/ fault = 2
    IN  Outcome(GetCursor(d, s1.db, raised), None,
                IF raised THEN DBError ELSE NoException)

VerifyLocation(faults) ==
    \E image_id \in ImageIds, file_path \in Paths, exists \in BOOLEAN,
       fault \in faults :
        LET r == verify_location(db, image_id, file_path, exists, fault)
        IN  /\ db' = r.db
            /\ last' = [op |-> "verify_location", image_id |-> image_id,
                        file_path |-> file_path, exists |-> exists,
                        matched |-> Cardinality(
                            {l \in LocationsOf(db, image_id) :
                                l.file_path = file_path}),
                        fault |-> fault, exc |-> r.exc]
            /\ UNCHANGED <<counter, last_reset, today, clock, gui>>

----------------------------------------------------------------------------
(* DBManager.set_project_path and DBManager.update_image_metadata: one     *)
(* UPDATE ... WHERE id = ? (fault 1), then the commit (2).                 *)

UpdateProjectPath(d, image_id, project_path) ==
    Stmt([d EXCEPT !.images =
            {IF i.id = image_id THEN [i EXCEPT !.project_path = project_path]
             ELSE i : i \in @}], TRUE, 0)

set_project_path(d, image_id, project_path, fault) ==
    LET s1 == IF fault = 1 THEN Stmt(d, FALSE, 0)
              ELSE UpdateProjectPath(d, image_id, project_path)
        raised == ~s1.ok \/ fault = 2
    IN  Outcome(GetCursor(d, s1.db, raised), None,
                IF raised THEN DBError ELSE NoException)

SetProjectPath(faults) ==
    \E image_id \in ImageIds, project_path \in Paths, fault \in faults :
        LET r == set_project_path(db, image_id, project_path, fault)
        IN  /\ db' = r.db
            /\ last' = [op |-> "set_project_path", image_id |-> image_id,
                        project_path |-> project_path, fault |-> fault,
                        exc |-> r.exc]
            /\ UNCHANGED <<counter, last_reset, today, clock, gui>>

UpdateMetadata(d, image_id, metadata) ==
    Stmt([d EXCEPT !.images =
            {IF i.id = image_id THEN [i EXCEPT !.metadata = metadata]
             ELSE i : i \in @}], TRUE, 0)

update_image_metadata(d, image_id, metadata, fault) ==
    LET s1 == IF fault = 1 THEN Stmt(d, FALSE, 0)
              ELSE UpdateMetadata(d, image_id, metadata)
        raised == ~s1.ok \/ fault = 2
    IN  Outcome(GetCursor(d, s1.db, raised), None,
                IF raised THEN DBError ELSE NoException)

UpdateImageMetadata(faults) ==
    \E image_id \in ImageIds, metadata \in Metadatas, fault \in faults :
        LET r == update_image_metadata(db, image_id, metadata, fault)
        IN  /\ db' = r.db
            /\ last' = [op |-> "update_image_metadata",
                        image_id |-> image_id, metadata |-> metadata,
                        fault |-> fault, exc |-> r.exc]
            /\ UNCHANGED <<counter, last_reset, today, clock, gui>>

----------------------------------------------------------------------------
(* DBManager.add_tag: INSERT OR IGNORE (fault 1), SELECT id (2), commit (3)*)

\* INSERT INTO tags without OR IGNORE: a second row of the name is refused.
InsertTagStrict(d, tag_name) ==
    IF ~TagNameUnique(d, tag_name)
    THEN Stmt(d, FALSE, 0)                       \* sqlite3.IntegrityError
    ELSE LET id == NextId(d, "tags")
         IN  Stmt([d EXCEPT !.tags = @ \cup {[id |-> id, name |-> tag_name]},
                            !.sqlite_sequence.tags = id], TRUE, id)

InsertOrIgnoreTag(d, tag_name) ==
    IF ~TagNameUnique(d, tag_name)
    THEN Stmt(d, TRUE, 0)                                     \* ignored
    ELSE LET id == NextId(d, "tags")
         IN  Stmt([d EXCEPT !.tags = @ \cup {[id |-> id, name |-> tag_name]},
                            !.sqlite_sequence.tags = id], TRUE, id)

SelectTagId(d, tag_name) ==
    LET rows == {t \in d.tags : t.name = tag_name}
    IN  IF rows = {} THEN Stmt(d, FALSE, 0)       \* None['id']: TypeError
        ELSE Stmt(d, TRUE, (CHOOSE t \in rows : TRUE).id)

add_tag(d, tag_name, fault) ==
    LET s1 == IF fault = 1 THEN Stmt(d, FALSE, 0)
              ELSE InsertOrIgnoreTag(d, tag_name)
        s2 == IF ~s1.ok THEN s1
              ELSE IF fault = 2 THEN Stmt(s1.db, FALSE, 0)
              ELSE SelectTagId(s1.db, tag_name)
        raised == ~s2.ok \/ fault = 3
    IN  Outcome(GetCursor(d, s2.db, raised),
                IF raised THEN 0 ELSE s2.lastrowid,
                IF raised THEN DBError ELSE NoException)

AddTag(faults) ==
    \E tag_name \in TagNames, fault \in faults :
        LET r == add_tag(db, tag_name, fault)
        IN  /\ WithinBounds(r.db)
            /\ db' = r.db
            /\ last' = [op |-> "add_tag", tag_name |-> tag_name,
                        fault |-> fault, ret |-> r.ret, exc |-> r.exc]
            /\ UNCHANGED <<counter, last_reset, today, clock, gui>>

\* Direct calls of add_tag with the names a user may type into the tag
\* dialog.
AddTagNamed(names, faults) ==
    \E tag_name \in names, fault \in faults :
        LET r == add_tag(db, tag_name, fault)
        IN  /\ WithinBounds(r.db)
            /\ db' = r.db
            /\ last' = [op |-> "add_tag", tag_name |-> tag_name,
                        fault |-> fault, ret |-> r.ret, exc |-> r.exc]
            /\ UNCHANGED <<counter, last_reset, today, clock, gui>>

----------------------------------------------------------------------------
(* DBManager.add_tag_to_image: INSERT OR IGNORE (fault 1), commit (2).     *)

InsertOrIgnoreImageTag(d, image_id, tag_id) ==
    IF ~ImageTagUnique(d, image_id, tag_id)
    THEN Stmt(d, TRUE, 0)                                     \* ignored
    ELSE Stmt([d EXCEPT !.image_tags =
                 @ \cup {[image_id |-> image_id, tag_id |-> tag_id]}],
              TRUE, 0)

add_tag_to_image(d, image_id, tag_id, fault) ==
    LET s1 == IF fault = 1 THEN Stmt(d, FALSE, 0)
              ELSE InsertOrIgnoreImageTag(d, image_id, tag_id)
        raised == ~s1.ok \/ fault = 2
    IN  Outcome(GetCursor(d, s1.db, raised), None,
                IF raised THEN DBError ELSE NoException)

AddTagToImage(faults) ==
    \E image_id \in KnownImageIds(db), tag_id \in TagIds, fault \in faults :
        LET r == add_tag_to_image(db, image_id, tag_id, fault)
        IN  /\ db' = r.db
            /\ last' = [op |-> "add_tag_to_image", image_id |-> image_id,
                        tag_id |-> tag_id, fault |-> fault, exc |-> r.exc]
            /\ UNCHANGED <<counter, last_reset, today, clock, gui>>

----------------------------------------------------------------------------
(* DBManager.remove_tags_for_image: one DELETE (fault 1), commit (2).      *)

DeleteImageTags(d, image_id) ==
    Stmt([d EXCEPT !.image_tags = {it \in @ : it.image_id # image_id}],
         TRUE, 0)

remove_tags_for_image(d, image_id, fault) ==
    LET s1 == IF fault = 1 THEN Stmt(d, FALSE, 0)
              ELSE DeleteImageTags(d, image_id)
        raised == ~s1.ok \/ fault = 2
    IN  Outcome(GetCursor(d, s1.db, raised), None,
                IF raised THEN DBError ELSE NoException)

RemoveTagsForImage(faults) ==
    \E image_id \in ImageIds, fault \in faults :
        LET r == remove_tags_for_image(db, image_id, fault)
        IN  /\ db' = r.db
            /\ last' = [op |-> "remove_tags_for_image",
                        image_id |-> image_id, fault |-> fault,
                        exc |-> r.exc]
            /\ UNCHANGED <<counter, last_reset, today, clock, gui>>

----------------------------------------------------------------------------
(* DBManager.delete_image: three DELETEs (faults 1, 2, 3), commit (4).     *)

DeleteLocationsOfImage(d, image_id) ==
    Stmt([d EXCEPT !.image_locations = {l \in @ : l.image_id # image_id}],
         TRUE, 0)

DeleteImageRow(d, image_id) ==
    Stmt([d EXCEPT !.images = {i \in @ : i.id # image_id}], TRUE, 0)

\* delete_image that leaves the locations to ON DELETE CASCADE, which the
\* connection does not enforce.
delete_image_relying_on_cascade(d, image_id, fault) ==
    LET s1 == IF fault \in {1, 2} THEN Stmt(d, FALSE, 0)
              ELSE DeleteImageTags(d, image_id)
        s3 == IF ~s1.ok THEN s1
              ELSE IF fault = 3 THEN Stmt(s1.db, FALSE, 0)
              ELSE DeleteImageRow(s1.db, image_id)
        raised == ~s3.ok \/ fault = 4
    IN  Outcome(GetCursor(d, s3.db, raised), None,
                IF raised THEN DBError ELSE NoException)

\* delete_image that also drops the tags no image carries any more.
delete_image_pruning_tags(d, image_id, fault) ==
    LET s1 == IF fault = 1 THEN Stmt(d, FALSE, 0)
              ELSE DeleteImageTags(d, image_id)
        s2 == IF ~s1.ok THEN s1
              ELSE IF fault = 2 THEN Stmt(s1.db, FALSE, 0)
              ELSE DeleteLocationsOfImage(s1.db, image_id)
        s3 == IF ~s2.ok THEN s2
              ELSE IF fault = 3 THEN Stmt(s2.db, FALSE, 0)
              ELSE DeleteImageRow(s2.db, image_id)
        s4 == IF ~s3.ok THEN s3
              ELSE Stmt([s3.db EXCEPT !.tags =
                            {t \in @ : \E it \in s3.db.image_tags :
                                            it.tag_id = t.id}], TRUE, 0)
        raised == ~s4.ok \/ fault = 4
    IN  Outcome(GetCursor(d, s4.db, raised), None,
                IF raised THEN DBError ELSE NoException)

delete_image(d, image_id, fault) ==
    LET s1 == IF fault = 1 THEN Stmt(d, FALSE, 0)
              ELSE DeleteImageTags(d, image_id)
        s2 == IF ~s1.ok THEN s1
              ELSE IF fault = 2 THEN Stmt(s1.db, FALSE, 0)
              ELSE DeleteLocationsOfImage(s1.db, image_id)
        s3 == IF ~s2.ok THEN s2
              ELSE IF fault = 3 THEN Stmt(s2.db, FALSE, 0)
              ELSE DeleteImageRow(s2.db, image_id)
        raised == ~s3.ok \/ fault = 4
    IN  Outcome(GetCursor(d, s3.db, raised), None,
                IF raised THEN DBError ELSE NoException)

DeleteImage(faults) ==
    \E image_id \in ImageIds, fault \in faults :
        LET r == delete_image(db, image_id, fault)
        IN  /\ db' = r.db
            /\ last' = [op |-> "delete_image", image_id |-> image_id,
                        md5_checksums |->
                            {i.md5_checksum : i \in
                                {j \in db.images : j.id = image_id}},
                        locations |->
                            Cardinality(LocationsOf(db, image_id)),
                        tags |-> Cardinality(
                            {it \in db.image_tags : it.image_id = image_id}),
                        fault |-> fault, exc |-> r.exc]
            /\ UNCHANGED <<counter, last_reset, today, clock, gui>>

----------------------------------------------------------------------------

(* MainWindow.import_files_to_db.  The call gets the selected files; what *)
(* the loop reads from disk is an input too: the md5 of each file's bytes, *)
(* or NoFile when PIL cannot open and verify it.  cancel_at is the         *)
(* iteration at which progress.wasCanceled() first answers True.           *)

Files(faults) ==
    [file_path : Paths, md5 : Hashes \cup {NoFile}, fault : faults]

FileLists(faults) ==
    UNION {{fl \in [1..n -> Files(faults)] :
                \A i, j \in 1..n : i # j => fl[i].file_path # fl[j].file_path}
           : n \in 1..MaxImport}

\* One iteration of the loop body (the try block and its except clause).
ImportOne(st, f) ==
    IF f.md5 = NoFile
    THEN [st EXCEPT !.error_count = @ + 1]         \* PILImage.open raises
    ELSE IF get_image_by_md5(st.db, f.md5) # None
    THEN [st EXCEPT !.skipped_count = @ + 1]
    ELSE LET g == generate_ordered_code(st.counter, st.last_reset, st.today)
             r == add_image(st.db, f.file_path, f.md5, g.code, EmptyMetadata,
                            Now(st.today, st.clock), f.fault)
         IN  [st EXCEPT !.db = r.db,
                        !.counter = g.counter,
                        !.last_reset = g.last_reset,
                        !.imported_count = @ + (IF r.exc = NoException
                                                THEN 1 ELSE 0),
                        !.error_count = @ + (IF r.exc = NoException
                                             THEN 0 ELSE 1)]

RECURSIVE ImportLoop(_, _, _, _)
ImportLoop(st, file_paths, i, cancel_at) ==
    IF i > Len(file_paths) \/ i = cancel_at THEN st
    ELSE ImportLoop(ImportOne(st, file_paths[i]), file_paths, i + 1,
                    cancel_at)

import_files_to_db(d, cnt, reset, current_date, time, file_paths, cancel_at) ==
    ImportLoop([db |-> d, counter |-> cnt, last_reset |-> reset,
                today |-> current_date, clock |-> time, imported_count |-> 0,
                skipped_count |-> 0, error_count |-> 0],
               file_paths, 1, cancel_at)

SelectionsNoFault == FileLists(NoFault)

ImportFilesToDb ==
    \E file_paths \in SelectionsNoFault :
    \E cancel_at \in 1..(Len(file_paths) + 1) :
        LET r == import_files_to_db(db, counter, last_reset, today, clock,
                                    file_paths, cancel_at)
        IN  /\ WithinBounds(r.db)
            /\ db' = r.db
            /\ counter' = r.counter
            /\ last_reset' = r.last_reset
            /\ last' = [op |-> "import_files_to_db",
                        file_paths |-> file_paths, cancel_at |-> cancel_at,
                        imported_count |-> r.imported_count,
                        skipped_count |-> r.skipped_count,
                        error_count |-> r.error_count]
            /\ UNCHANGED <<today, clock, gui>>

\* The segments codes are put together from: "REF", "IMG", "000001",
\* "20240115", "2024115", "20240230", "12x", "+7" and "".
Segments ==
    {<<"R", "E", "F">>,
     <<"I", "M", "G">>,
     <<"0", "0", "0", "0", "0", "1">>,
     <<"2", "0", "2", "4", "0", "1", "1", "5">>,
     <<"2", "0", "2", "4", "1", "1", "5">>,
     <<"2", "0", "2", "4", "0", "2", "3", "0">>,
     <<"1", "2", "x">>,
     <<"+", "7">>,
     <<>>}

\* The codes handed to parse_code and validate_code: up to MaxSegments
\* segments joined by "-", and two values that are not str.
Codes ==
    {Join(parts, "-") :
        parts \in UNION {[1..n -> Segments] : n \in 1..MaxSegments}}

CodeInputs == {PyStr(chars) : chars \in Codes} \cup {PyNone, PyInt(7)}

\* parse_code and validate_code are applied to a value that has been chosen.
ParseCode ==
    /\ last.op = "input"
    /\ LET r == parse_code(DefaultPrefix, last.code)
       IN  last' = [op |-> "parse_code", code |-> last.code,
                    ret |-> r.ret, exc |-> r.exc]
    /\ UNCHANGED <<db, counter, last_reset, today, clock, gui>>

ValidateCode ==
    /\ last.op = "input"
    /\ LET r == validate_code(DefaultPrefix, last.code)
       IN  last' = [op |-> "validate_code", code |-> last.code,
                    ret |-> r.ret, exc |-> r.exc]
    /\ UNCHANGED <<db, counter, last_reset, today, clock, gui>>

\* A direct call of generate_ordered_code().
GenerateOrderedCode ==
    LET r == generate_ordered_code(counter, last_reset, today)
    IN  /\ r.counter <= MaxCounter
        /\ counter' = r.counter
        /\ last_reset' = r.last_reset
        /\ last' = [op |-> "generate_ordered_code", code |-> r.code,
                    before |-> counter, new_day |-> today # last_reset]
        /\ UNCHANGED <<db, today, clock, gui>>

\* The application is closed and started again: MainWindow.__init__ makes a
\* new ReferenceService, the database file stays.
Restart ==
    /\ counter' = 0
    /\ last_reset' = today
    /\ last' = [op |-> "restart"]
    /\ UNCHANGED <<db, today, clock, gui>>

\* import_files_to_db with one file selected and the progress dialog left
\* alone.
ImportSingleFile ==
    \E f \in Files(NoFault) :
        LET r == import_files_to_db(db, counter, last_reset, today, clock,
                                    <<f>>, 2)
        IN  /\ WithinBounds(r.db)
            /\ db' = r.db
            /\ counter' = r.counter
            /\ last_reset' = r.last_reset
            /\ last' = [op |-> "import_files_to_db",
                        file_paths |-> <<f>>, cancel_at |-> 2,
                        imported_count |-> r.imported_count,
                        skipped_count |-> r.skipped_count,
                        error_count |-> r.error_count]
            /\ UNCHANGED <<today, clock, gui>>

\* datetime.now() reads later.  Calls between two ticks read the same time.
Tick ==
    /\ clock < MaxClock
    /\ clock' = clock + 1
    /\ last' = [op |-> "tick"]
    /\ UNCHANGED <<db, counter, last_reset, today, gui>>

\* Midnight passes.
NewDay ==
    /\ today < MaxDay
    /\ today' = today + 1
    /\ clock' = 0
    /\ last' = [op |-> "new_day"]
    /\ UNCHANGED <<db, counter, last_reset, gui>>

----------------------------------------------------------------------------
(* ReferenceService: codes that carry a date.  The days of the model are   *)
(* the days from 2024-12-31 on and reading c of the clock is second c of   *)
(* the day.                                                                *)

CalendarDate(day) ==
    IF day = 1 THEN [year |-> 2024, month |-> 12, day |-> 31]
    ELSE [year |-> 2025, month |-> 1, day |-> day - 1]

TimeOfDay(time) ==
    [hour |-> time \div 3600, minute |-> (time \div 60) % 60,
     second |-> time % 60]

\* strftime("%Y%m%d") of a date
StrftimeDate(day) ==
    LET d == CalendarDate(day)
    IN  ZeroFill(Decimal(d.year), 4) \o ZeroFill(Decimal(d.month), 2)
            \o ZeroFill(Decimal(d.day), 2)

\* date.isoformat()
IsoDate(day) ==
    LET d == CalendarDate(day)
    IN  ZeroFill(Decimal(d.year), 4) \o <<"-">>
            \o ZeroFill(Decimal(d.month), 2) \o <<"-">>
            \o ZeroFill(Decimal(d.day), 2)

\* datetime.strftime("%Y%m%d-%H%M%S")
Strftime(now) ==
    LET t == TimeOfDay(now.time)
    IN  StrftimeDate(now.date) \o <<"-">> \o ZeroFill(Decimal(t.hour), 2)
            \o ZeroFill(Decimal(t.minute), 2)
            \o ZeroFill(Decimal(t.second), 2)

\* The date_prefix arguments of generate_ordered_code: left out, empty, and
\* the day of the call in the two usual notations.
DatePrefixes(day) ==
    {PyNone, PyStr(<<>>), PyStr(StrftimeDate(day)), PyStr(IsoDate(day))}

\* generate_ordered_code(date_prefix): the counter as without the argument;
\* a date_prefix that is truthy goes in front of the prefix.
generate_ordered_code_dated(cnt, reset, current_date, date_prefix) ==
    LET r == generate_ordered_code(cnt, reset, current_date)
    IN  IF PyTruthy(date_prefix)
        THEN [r EXCEPT !.code = date_prefix.chars \o <<"-">> \o @]
        ELSE r

\* generate_timestamp_code: f"{self.prefix}-{timestamp}"
generate_timestamp_code(prefix, now) == prefix \o <<"-">> \o Strftime(now)

\* A call of generate_ordered_code with any date_prefix, and what the
\* service makes of the code it returned.
GenerateOrderedCodeDated ==
    \E date_prefix \in DatePrefixes(today) :
        LET r == generate_ordered_code_dated(counter, last_reset, today,
                                             date_prefix)
        IN  /\ r.counter <= MaxCounter
            /\ counter' = r.counter
            /\ last_reset' = r.last_reset
            /\ last' = [op |-> "generate_ordered_code", code |-> r.code,
                        date_prefix |-> date_prefix,
                        valid |-> validate_code(DefaultPrefix,
                                                PyStr(r.code)).ret,
                        parsed |-> parse_code(DefaultPrefix,
                                              PyStr(r.code)).ret]
            /\ UNCHANGED <<db, today, clock, gui>>

GenerateTimestampCode ==
    LET code == generate_timestamp_code(DefaultPrefix, Now(today, clock))
    IN  /\ last' = [op |-> "generate_timestamp_code", code |-> code,
                    date_prefix |-> PyNone,
                    valid |-> validate_code(DefaultPrefix, PyStr(code)).ret,
                    parsed |-> parse_code(DefaultPrefix, PyStr(code)).ret]
        /\ UNCHANGED <<db, counter, last_reset, today, clock, gui>>

----------------------------------------------------------------------------
(* MainWindow.edit_tags: the text of the input dialog is cut at its        *)
(* commas, the pieces are stripped and the empty ones dropped; the image   *)
(* loses its tags and gets one association per piece, the tag being        *)
(* created when the name is new.  Each DBManager call is a transaction of  *)
(* its own.                                                                *)

\* str.strip()
Strip(text) == RStrip(LStrip(text))

\* [tag.strip() for tag in text.split(",") if tag.strip()]
TagsOfText(text) ==
    LET parts == Split(text, ",")
        NonEmpty(t) == Len(t) > 0
    IN  SelectSeq([k \in 1..Len(parts) |-> Strip(parts[k])], NonEmpty)

RECURSIVE EditTagsLoop(_, _, _, _)
EditTagsLoop(d, image_id, tags, k) ==
    IF k > Len(tags) THEN d
    ELSE LET t == add_tag(d, tags[k], 0)
             a == add_tag_to_image(t.db, image_id, t.ret, 0)
         IN  EditTagsLoop(a.db, image_id, tags, k + 1)

edit_tags(d, image_id, text, ok) ==
    IF ~ok THEN Outcome(d, None, NoException)              \* dialog cancelled
    ELSE LET tags == TagsOfText(text)
             cleared == remove_tags_for_image(d, image_id, 0)
         IN  Outcome(EditTagsLoop(cleared.db, image_id, tags, 1), None,
                     NoException)

\* What the user may leave in the dialog: "", "sunset", "sunset, beach" and
\* " ,".
DialogTexts ==
    {<<>>,
     <<"s", "u", "n", "s", "e", "t">>,
     <<"s", "u", "n", "s", "e", "t", ",", " ", "b", "e", "a", "c", "h">>,
     <<" ", ",">>}

\* The image is the one of the selected row of the table of images.
EditTags ==
    \E image_id \in KnownImageIds(db), text \in DialogTexts, ok \in BOOLEAN :
        LET r == edit_tags(db, image_id, text, ok)
        IN  /\ db' = r.db
            /\ last' = [op |-> "edit_tags", image_id |-> image_id,
                        text |-> text, ok |-> ok, exc |-> r.exc]
            /\ UNCHANGED <<counter, last_reset, today, clock, gui>>

----------------------------------------------------------------------------
(* add_image_location and add_tag_to_image as the methods of DBManager     *)
(* that they are: called with any image id and tag id, catalogued or not.  *)

AddImageLocationAnyId(faults) ==
    \E image_id \in ImageIds, file_path \in Paths, is_verified \in {TRUE},
       fault \in faults :
        LET r == add_image_location(db, image_id, file_path, is_verified,
                                    fault)
        IN  /\ WithinBounds(r.db)
            /\ db' = r.db
            /\ last' = [op |-> "add_image_location", image_id |-> image_id,
                        file_path |-> file_path, fault |-> fault,
                        exc |-> r.exc]
            /\ UNCHANGED <<counter, last_reset, today, clock, gui>>

AddTagToImageAnyId(faults) ==
    \E image_id \in ImageIds, tag_id \in TagIds, fault \in faults :
        LET r == add_tag_to_image(db, image_id, tag_id, fault)
        IN  /\ db' = r.db
            /\ last' = [op |-> "add_tag_to_image", image_id |-> image_id,
                        tag_id |-> tag_id, fault |-> fault, exc |-> r.exc]
            /\ UNCHANGED <<counter, last_reset, today, clock, gui>>

----------------------------------------------------------------------------
(* MainWindow.verify_image_locations, the reconciliation pass.  The call   *)
(* gets what it reads from outside the catalogue as inputs: the list the   *)
(* SELECT returns (its rows in the order fetchall() gives them), the set   *)
(* of paths os.path.exists finds, the iteration at which                   *)
(* progress.wasCanceled() first answers True, and the iteration whose      *)
(* verify_location call fails.                                             *)

\* The attributes of a DBManager object: db_path, set by __init__, and the
\* methods of the class.  Every method opens its own connection in
\* _get_cursor; the object keeps none.
DBManagerAttributes ==
    {"db_path", "_get_cursor", "_initialize_db", "add_image",
     "get_image_by_md5", "add_image_location", "verify_location",
     "set_project_path", "add_tag", "add_tag_to_image", "get_tags_for_image",
     "remove_tags_for_image", "update_image_metadata", "delete_image",
     "get_all_images_with_tags", "search_images"}

\* SELECT i.id, il.file_path FROM images i
\* JOIN image_locations il ON i.id = il.image_id
JoinedLocations(d) ==
    {l \in d.image_locations : \E i \in d.images : i.id = l.image_id}

\* The query has no ORDER BY: fetchall() may give the rows in any order.
RECURSIVE Orderings(_)
Orderings(rows) ==
    IF rows = {} THEN {<<>>}
    ELSE UNION {{<<r>> \o rest : rest \in Orderings(rows \ {r})} : r \in rows}

\* The for loop.  Nothing in it catches an exception: a DBError of
\* verify_location ends the loop and the method.
RECURSIVE VerifyLoop(_, _, _, _, _, _)
VerifyLoop(st, locations, i, existing, cancel_at, fail_at) ==
    IF i > Len(locations) \/ i = cancel_at THEN st
    ELSE LET image_id == locations[i].image_id
             file_path == locations[i].file_path
             exists == file_path \in existing          \* os.path.exists
             r == verify_location(st.db, image_id, file_path, exists,
                                  IF i = fail_at THEN 1 ELSE 0)
         IN  IF r.exc # NoException
             THEN [st EXCEPT !.db = r.db, !.exc = r.exc]
             ELSE VerifyLoop([st EXCEPT !.db = r.db,
                                        !.removed = @ + (IF exists THEN 0
                                                         ELSE 1),
                                        !.verified = @ + (IF exists THEN 1
                                                          ELSE 0),
                                        !.processed = @ + 1],
                             locations, i + 1, existing, cancel_at, fail_at)

\* A call leaves the catalogue, the exception that left the method, the
\* counts of the status message (None when no counts were shown) and the
\* number of rows the loop went through.
Reconciled(d, exc, report, processed) ==
    [db |-> d, exc |-> exc, report |-> report, processed |-> processed]

verify_image_locations(d, locations, existing, cancel_at, fail_at) ==
    IF "conn" \notin DBManagerAttributes        \* self.db_manager.conn
    THEN Reconciled(d, AttributeError, None, 0)
    ELSE IF Len(locations) = 0
    THEN Reconciled(d, NoException, None, 0)
    ELSE LET st == VerifyLoop([db |-> d, verified |-> 0, removed |-> 0,
                               processed |-> 0, exc |-> NoException],
                              locations, 1, existing, cancel_at, fail_at)
         IN  IF st.exc # NoException
             THEN Reconciled(st.db, st.exc, None, st.processed)
             ELSE Reconciled(st.db, NoException,
                             [verified |-> st.verified,
                              removed |-> st.removed], st.processed)

VerifyImageLocations ==
    \E locations \in Orderings(JoinedLocations(db)),
       existing \in SUBSET Paths :
    \E cancel_at \in 1..(Len(locations) + 1), fail_at \in 0..Len(locations) :
        LET r == verify_image_locations(db, locations, existing, cancel_at,
                                        fail_at)
        IN  /\ db' = r.db
            /\ last' = [op |-> "verify_image_locations",
                        locations |-> locations, existing |-> existing,
                        cancel_at |-> cancel_at, fail_at |-> fail_at,
                        exc |-> r.exc, report |-> r.report,
                        processed |-> r.processed]
            /\ UNCHANGED <<counter, last_reset, today, clock, gui>>

----------------------------------------------------------------------------
(* ImageCache, the cache of scaled previews that MainWindow keeps: a dict  *)
(* from path to pixmap and the list of its keys in order of last use.      *)

\* The default of ImageCache.__init__'s max_size.
DefaultCacheSize == 100

\* ImageCache.__init__(max_size): an empty dict and an empty list.
ImageCache(max_size) ==
    [cache |-> [p \in {} |-> None], max_size |-> max_size,
     access_order |-> <<>>]

\* The cache MainWindow.__init__ builds, with the default max_size.
NewImageCache == ImageCache(DefaultCacheSize)

\* list.remove(path) followed by list.append(path); remove is guarded by
\* "path in self.access_order".
_update_access(c, path) ==
    [c EXCEPT !.access_order =
        Append(SelectSeq(c.access_order, LAMBDA q : q # path), path)]

\* Pops the head of access_order and deletes its key from the dict; does
\* nothing when the list is empty.
_evict(c) ==
    IF c.access_order # <<>>
    THEN LET oldest == Head(c.access_order)
         IN  [c EXCEPT !.access_order = Tail(c.access_order),
                       !.cache = [p \in DOMAIN c.cache \ {oldest}
                                        |-> c.cache[p]]]
    ELSE c

\* ImageCache.get: the cached pixmap, refreshing its place in the order,
\* or None.
get(c, path) ==
    IF path \in DOMAIN c.cache
    THEN [c |-> _update_access(c, path), ret |-> c.cache[path]]
    ELSE [c |-> c, ret |-> None]

\* ImageCache.put: the size test comes before the assignment and does not
\* look at whether path is already a key.
put(c, path, pixmap) ==
    LET e == IF Cardinality(DOMAIN c.cache) >= c.max_size
             THEN _evict(c) ELSE c
        w == [e EXCEPT !.cache =
                [p \in DOMAIN e.cache \cup {path}
                    |-> IF p = path THEN pixmap ELSE e.cache[p]]]
    IN  _update_access(w, path)

\* The paths previewed and the pixmaps made for them (a path is scaled
\* again, to another pixmap, when the label has been resized).
CachePaths == {"/a.jpg", "/b.jpg", "/c.jpg"}
Pixmaps == {"pixmap1", "pixmap2"}

CacheGet ==
    \E path \in CachePaths :
        LET r == get(image_cache, path)
        IN  /\ image_cache' = r.c
            /\ last' = [op |-> "get", path |-> path, before |-> image_cache,
                        ret |-> r.ret]
            /\ UNCHANGED <<db, counter, last_reset, today, clock,
                           scan_dialog>>

CachePut ==
    \E path \in CachePaths, pixmap \in Pixmaps :
        /\ image_cache' = put(image_cache, path, pixmap)
        /\ last' = [op |-> "put", path |-> path, before |-> image_cache,
                    ret |-> None]
        /\ UNCHANGED <<db, counter, last_reset, today, clock, scan_dialog>>

----------------------------------------------------------------------------
(* ScanDriveDialog and its worker, ImageScannerThread.                     *)

(* The worker gets the tree os.walk finds under the chosen folder, which   *)
(* stays as it is during the scan.  run() is a sequence of steps, pc names *)
(* the next one; the flag self.running is read by the two loop tests only  *)
(* and written by stop() from the main thread at any moment.  The signals  *)
(* the worker emits are queued for the main thread, which runs the slot of *)
(* one signal at a time, in the order of emission.                         *)

\* The files a scanned folder may hold: "a.jpg", an image whose md5 is
\* "H1"; "e.PNG", an image that cannot be read; and "n.txt", a text file
\* with the bytes of the first.
ScanFiles ==
    {[name |-> <<"a", ".", "j", "p", "g">>, md5 |-> "H1"],
     [name |-> <<"e", ".", "P", "N", "G">>, md5 |-> NoFile],
     [name |-> <<"n", ".", "t", "x", "t">>, md5 |-> "H1"]}

\* The directories os.walk yields, the chosen folder first: "/" and "/s".
Roots == << <<"/">>, <<"/", "s">> >>

\* The files of one directory: no name twice.
FileSeqs(n) ==
    UNION {{fs \in [1..k -> ScanFiles] :
                \A i, j \in 1..k : i # j => fs[i].name # fs[j].name}
           : k \in 0..n}

RECURSIVE TotalFiles(_)
TotalFiles(walk) ==
    IF Len(walk) = 0 THEN 0 ELSE Len(walk[1]) + TotalFiles(Tail(walk))

\* What os.walk(start_path) may yield: walk[r] are the files of Roots[r].
Walks ==
    {walk \in UNION {[1..k -> FileSeqs(MaxScanFiles)] : k \in 1..Len(Roots)} :
        TotalFiles(walk) <= MaxScanFiles}

\* text.endswith(suffix)
EndsWith(text, suffix) ==
    /\ Len(text) >= Len(suffix)
    /\ SubSeq(text, Len(text) - Len(suffix) + 1, Len(text)) = suffix

\* file.lower().endswith(('.png', '.jpg', '.jpeg', '.bmp'))
IsImageName(file) ==
    LET lower == [k \in 1..Len(file) |-> Lower(file[k])]
    IN  \E suffix \in {<<".", "p", "n", "g">>, <<".", "j", "p", "g">>,
                       <<".", "j", "p", "e", "g">>, <<".", "b", "m", "p">>} :
            EndsWith(lower, suffix)

\* os.path.join(root, file) for a relative file name
PathJoin(root, file) ==
    IF Len(root) = 0 \/ root[Len(root)] = "/" THEN root \o file
    ELSE root \o <<"/">> \o file

\* ImageScannerThread.__init__ followed by start(): run() is about to begin.
\* hashed lists the files compute_md5 has been called for, signals the
\* signals emitted so far.
ImageScannerThread(walk, known_checksums) ==
    [running |-> TRUE, pc |-> "count", walk |-> walk,
     known_checksums |-> known_checksums, total_files |-> 0, processed |-> 0,
     root |-> 1, file |-> 1, hashed |-> <<>>, signals |-> <<>>]

Emit(t, signal) == [t EXCEPT !.signals = Append(@, signal)]

\* for root, _, files in os.walk(...): if not self.running: break
run_outer_test(t) ==
    IF t.root > Len(t.walk) \/ ~t.running THEN [t EXCEPT !.pc = "finish"]
    ELSE [t EXCEPT !.file = 1, !.pc = "inner"]

\* The inner loop without its test of the flag.
run_inner_test_unchecked(t) ==
    IF t.file > Len(t.walk[t.root])
    THEN [t EXCEPT !.root = @ + 1, !.pc = "outer"]
    ELSE [t EXCEPT !.pc = "file"]

\* for file in files: if not self.running: break
run_inner_test(t) ==
    IF t.file > Len(t.walk[t.root]) \/ ~t.running
    THEN [t EXCEPT !.root = @ + 1, !.pc = "outer"]
    ELSE [t EXCEPT !.pc = "file"]

\* The test of the extension and the try block up to the comparison with
\* known_checksums; an exception of compute_md5 is passed over.
run_file(t) ==
    LET file == t.walk[t.root][t.file]
    IN  IF ~IsImageName(file.name) THEN [t EXCEPT !.pc = "progress"]
        ELSE [t EXCEPT !.hashed = Append(@, <<t.root, t.file>>),
                       !.pc = IF file.md5 # NoFile
                                 /\ file.md5 \in t.known_checksums
                              THEN "match" ELSE "progress"]

\* self.found_match.emit(file_path, md5_checksum)
run_match(t) ==
    LET file == t.walk[t.root][t.file]
    IN  [Emit(t, [signal |-> "found_match",
                  file_path |-> PathJoin(Roots[t.root], file.name),
                  md5_checksum |-> file.md5, at |-> <<t.root, t.file>>])
            EXCEPT !.pc = "progress"]

\* processed += 1; self.progress.emit(int(processed * 100 / total_files))
run_progress(t) ==
    [Emit(t, [signal |-> "progress",
              value |-> ((t.processed + 1) * 100) \div t.total_files])
        EXCEPT !.processed = @ + 1, !.file = @ + 1, !.pc = "inner"]

\* One step of run().
run(t) ==
    CASE t.pc = "count" ->
            [t EXCEPT !.total_files = TotalFiles(t.walk), !.processed = 0,
                      !.root = 1, !.pc = "outer"]
      [] t.pc = "outer" -> run_outer_test(t)
      [] t.pc = "inner" -> run_inner_test(t)
      [] t.pc = "file" -> run_file(t)
      [] t.pc = "match" -> run_match(t)
      [] t.pc = "progress" -> run_progress(t)
      [] t.pc = "finish" ->
            [Emit(t, [signal |-> "finished"]) EXCEPT !.pc = "done"]

\* ImageScannerThread.stop
stop(t) == [t EXCEPT !.running = FALSE]

\* ScanDriveDialog.__init__.  delivered counts the signals of the thread
\* whose slots have run.
ScanDriveDialog(known_checksums) ==
    [known_checksums |-> known_checksums, scanner_thread |-> None,
     matches |-> <<>>, scan_btn |-> TRUE, copy_btn |-> FALSE,
     delivered |-> 0]

\* ScanDriveDialog.start_scan with a folder that exists
start_scan(dlg, walk) ==
    [dlg EXCEPT !.matches = <<>>, !.scan_btn = FALSE,
                !.scanner_thread = ImageScannerThread(walk,
                                                      dlg.known_checksums),
                !.delivered = 0]

\* ScanDriveDialog.add_match
add_match(dlg, file_path, md5_checksum) ==
    [dlg EXCEPT !.matches = Append(@, <<file_path, md5_checksum>>)]

\* ScanDriveDialog.scan_finished
scan_finished(dlg) == [dlg EXCEPT !.scan_btn = TRUE, !.copy_btn = TRUE]

\* The main thread clicks Start Scan, which is enabled.
StartScan ==
    /\ scan_dialog.scan_btn
    /\ \E walk \in Walks :
        /\ scan_dialog' = start_scan(scan_dialog, walk)
        /\ last' = [op |-> "start_scan", thread |-> "main"]
    /\ UNCHANGED <<db, counter, last_reset, today, clock, image_cache>>

\* The worker thread takes the next step of run().
Worker ==
    /\ scan_dialog.scanner_thread # None
    /\ scan_dialog.scanner_thread.pc # "done"
    /\ scan_dialog' = [scan_dialog EXCEPT !.scanner_thread = run(@)]
    /\ last' = [op |-> "run", thread |-> "worker"]
    /\ UNCHANGED <<db, counter, last_reset, today, clock, image_cache>>

\* The main thread calls stop() on the thread.
Stop ==
    /\ scan_dialog.scanner_thread # None
    /\ scan_dialog.scanner_thread.running
    /\ scan_dialog' = [scan_dialog EXCEPT !.scanner_thread = stop(@)]
    /\ last' = [op |-> "stop", thread |-> "main"]
    /\ UNCHANGED <<db, counter, last_reset, today, clock, image_cache>>

\* The main thread runs the slot connected to the oldest signal not yet
\* delivered: progress_bar.setValue, add_match or scan_finished.
DeliverSignal ==
    /\ scan_dialog.scanner_thread # None
    /\ scan_dialog.delivered < Len(scan_dialog.scanner_thread.signals)
    /\ LET s == scan_dialog.scanner_thread.signals[scan_dialog.delivered + 1]
           dlg == [scan_dialog EXCEPT !.delivered = @ + 1]
       IN  /\ scan_dialog' =
                CASE s.signal = "found_match" ->
                        add_match(dlg, s.file_path, s.md5_checksum)
                  [] s.signal = "finished" -> scan_finished(dlg)
                  [] OTHER -> dlg
           /\ last' = [op |-> "slot", thread |-> "main"]
    /\ UNCHANGED <<db, counter, last_reset, today, clock, image_cache>>


\* os.path.basename(path)
Basename(path) ==
    LET parts == Split(path, "/") IN parts[Len(parts)]

\* The project folder of config.json: "/p".
ProjectFolder == <<"/", "p">>

\* The body of the loop of copy_selected for one checked item whose source
\* file exists: the copy, then the catalogue calls.  An exception of any of
\* them is caught and shown in the item.
CopyOne(d, source_path, md5_checksum, project_folder) ==
    LET dest_path == PathJoin(project_folder, Basename(source_path))
        image_info == get_image_by_md5(d, md5_checksum)
    IN  IF image_info = None THEN d
        ELSE LET a == add_image_location(d, image_info.id, dest_path, TRUE, 0)
             IN  IF a.exc # NoException THEN a.db
                 ELSE set_project_path(a.db, image_info.id, dest_path, 0).db

RECURSIVE CopyLoop(_, _, _, _, _)
CopyLoop(d, matches, checked, project_folder, i) ==
    IF i > Len(matches) THEN d
    ELSE CopyLoop(IF i \in checked
                  THEN CopyOne(d, matches[i][1], matches[i][2], project_folder)
                  ELSE d,
                  matches, checked, project_folder, i + 1)

\* ScanDriveDialog.copy_selected; project_folder is None when config.json
\* cannot be read or names no folder.
copy_selected(d, dlg, checked, project_folder) ==
    IF project_folder = None THEN d
    ELSE CopyLoop(d, dlg.matches, checked, project_folder, 1)

\* The main thread clicks Copy Selected, which is enabled, with some of the
\* items checked.
CopySelected ==
    /\ scan_dialog.copy_btn
    /\ \E checked \in SUBSET (1..Len(scan_dialog.matches)),
          project_folder \in {None, ProjectFolder} :
        LET d == copy_selected(db, scan_dialog, checked, project_folder)
        IN  /\ WithinBounds(d)
            /\ db' = d
            /\ last' = [op |-> "copy_selected", thread |-> "main"]
    /\ UNCHANGED <<counter, last_reset, today, clock, gui>>

----------------------------------------------------------------------------

Init ==
    /\ db = EmptyDb
    /\ counter = 0
    /\ today = 1
    /\ clock = 0
    /\ last_reset = 1
    /\ image_cache = NewImageCache
    /\ scan_dialog = None               \* no scan dialog is open
    /\ last = [op |-> "init"]

\* The scan dialog opened over a catalogue that holds one image: the dialog
\* is given the md5 checksums of the catalogued images.
InitScan ==
    /\ db = add_image(EmptyDb, <<"/", "a", ".", "j", "p", "g">>, "H1",
                      OrderedCode(DefaultPrefix, 1), EmptyMetadata,
                      Now(1, 0), 0).db
    /\ counter = 0
    /\ today = 1
    /\ clock = 0
    /\ last_reset = 1
    /\ image_cache = NewImageCache
    /\ scan_dialog = ScanDriveDialog({i.md5_checksum : i \in db.images})
    /\ last = [op |-> "init", thread |-> "main"]

\* A preview cache of any small capacity, empty, beside an empty catalogue.
InitCache ==
    /\ db = EmptyDb
    /\ counter = 0
    /\ today = 1
    /\ clock = 0
    /\ last_reset = 1
    /\ \E max_size \in 1..MaxCacheSize : image_cache = ImageCache(max_size)
    /\ scan_dialog = None               \* no scan dialog is open
    /\ last = [op |-> "init"]

\* A fresh service and a value to hand to parse_code or validate_code.
InitParse ==
    /\ db = EmptyDb
    /\ counter = 0
    /\ today = 1
    /\ clock = 0
    /\ last_reset = 1
    /\ image_cache = NewImageCache
    /\ scan_dialog = None               \* no scan dialog is open
    /\ \E code \in CodeInputs : last = [op |-> "input", code |-> code]

Next ==
    \/ AddImage(NoFault)
    \/ AddImageLocation(NoFault)
    \/ VerifyLocation(NoFault)
    \/ AddTag(NoFault)
    \/ AddTagToImage(NoFault)
    \/ RemoveTagsForImage(NoFault)
    \/ DeleteImage(NoFault)

Spec == Init /\ [][Next]_vars

\* Imports on one day, with direct additions and deletions between them.
NextImport ==
    \/ ImportFilesToDb
    \/ AddImage(NoFault)
    \/ DeleteImage(NoFault)

SpecImport == Init /\ [][NextImport]_vars

\* Tagging: tags of several names are created and looked up while images
\* come, are tagged and go.
NextTags ==
    \/ AddTagNamed(DialogTagNames, NoFault)
    \/ AddImage(NoFault)
    \/ AddTagToImage(NoFault)
    \/ RemoveTagsForImage(NoFault)
    \/ DeleteImage(NoFault)

SpecTags == Init /\ [][NextTags]_vars

\* Searching: images with their locations, tags and metadata as the search
\* box finds them.
NextSearch ==
    \/ AddImage(NoFault)
    \/ VerifyLocation(NoFault)
    \/ UpdateImageMetadata(NoFault)
    \/ AddTag(NoFault)
    \/ AddTagToImage(NoFault)

SpecSearch == Init /\ [][NextSearch]_vars

\* Listing: images are added, given further locations and deleted while the
\* clock runs.
NextListing ==
    \/ AddImage(NoFault)
    \/ AddImageLocation(NoFault)
    \/ DeleteImage(NoFault)
    \/ Tick
    \/ NewDay

SpecListing == Init /\ [][NextListing]_vars

\* The allocator of reference codes: direct calls, midnights and restarts
\* of the application.
NextRef ==
    \/ GenerateOrderedCode
    \/ NewDay
    \/ Restart

SpecRef == Init /\ [][NextRef]_vars

\* Imports of one file at a time over several days and runs of the
\* application.
NextCodes ==
    \/ ImportSingleFile
    \/ NewDay
    \/ Restart

SpecCodes == Init /\ [][NextCodes]_vars

\* parse_code and validate_code applied to every input.
NextParse ==
    \/ ParseCode
    \/ ValidateCode

SpecParse == InitParse /\ [][NextParse]_vars

\* Reconciliation: images come with their locations, further locations are
\* recorded, and the pass is run over any state of the file system.
NextVerify ==
    \/ AddImage(NoFault)
    \/ AddImageLocation(NoFault)
    \/ VerifyImageLocations

SpecVerify == Init /\ [][NextVerify]_vars

\* The store called with any ids: the image or the tag an operation names
\* may not be catalogued, or not any more.
NextIds ==
    \/ AddImage(NoFault)
    \/ AddImageLocationAnyId(NoFault)
    \/ AddTag(NoFault)
    \/ AddTagToImageAnyId(NoFault)
    \/ SetProjectPath(NoFault)
    \/ UpdateImageMetadata(NoFault)
    \/ DeleteImage(NoFault)

SpecIds == Init /\ [][NextIds]_vars

\* Tags through the dialog: images come and go, their tags are edited in
\* the dialog and cleared.
NextEditTags ==
    \/ AddImage(NoFault)
    \/ EditTags
    \/ RemoveTagsForImage(NoFault)
    \/ DeleteImage(NoFault)

SpecEditTags == Init /\ [][NextEditTags]_vars

\* The scan dialog: the main thread starts scans, stops the worker, runs
\* the slots of the signals and copies matches, while the worker steps
\* through run().  The worker is a thread of its own that the scheduler
\* keeps running.
NextScan ==
    \/ StartScan
    \/ Worker
    \/ Stop
    \/ DeliverSignal
    \/ CopySelected

SpecScan == InitScan /\ [][NextScan]_vars /\ WF_vars(Worker)

\* Listing of tagged images: images get further locations and, through
\* the tag dialog, no tag, one tag or two.
NextTagListing ==
    \/ AddImage(NoFault)
    \/ AddImageLocation(NoFault)
    \/ EditTags

SpecTagListing == Init /\ [][NextTagListing]_vars

\* The allocator asked for codes of every kind while the clock runs.
NextGenerate ==
    \/ GenerateOrderedCodeDated
    \/ GenerateTimestampCode
    \/ Tick
    \/ NewDay

SpecGenerate == Init /\ [][NextGenerate]_vars

\* The preview cache under any sequence of get and put calls.
NextCache ==
    \/ CacheGet
    \/ CachePut

SpecCache == InitCache /\ [][NextCache]_vars

\* The store operations when a step of a with-block may raise.  add_image,
\* add_tag_to_image and delete_image, which build up and take down an image
\* with its rows, run with or without a fault; the other operations appear
\* with the runs in which one of their statements or their commit raises.
NextFault ==
    \/ AddImage(0..3)
    \/ AddImageLocation(1..2)
    \/ VerifyLocation(1..2)
    \/ SetProjectPath(1..2)
    \/ UpdateImageMetadata(1..2)
    \/ AddTag(1..3)
    \/ AddTagToImage(0..2)
    \/ RemoveTagsForImage(1..2)
    \/ DeleteImage(0..4)

SpecFault == Init /\ [][NextFault]_vars

----------------------------------------------------------------------------
(* Properties *)

HashCatalogued(d, md5_checksum) ==
    \E i \in d.images : i.md5_checksum = md5_checksum

HasLocationRow(d, image_id, file_path) ==
    \E l \in d.image_locations :
        l.image_id = image_id /\ l.file_path = file_path

\* C1: in every reachable state no two rows of images have the same
\* md5_checksum.
C1_HashUnique ==
    \A i, j \in db.images : i.md5_checksum = j.md5_checksum => i = j

\* add_image was refused for a hash the catalogue holds, next to a second
\* image with another hash.
C1_Witness ==
    /\ last.op = "add_image"
    /\ last.exc = DBError
    /\ HashCatalogued(db, last.md5_checksum)
    /\ Cardinality(db.images) = 2

C3_AddImageEffect ==
    [][(last'.op = "add_image" /\ ~HashCatalogued(db, last'.md5_checksum))
        => /\ last'.exc = NoException
           /\ \E img \in db'.images \ db.images :
                /\ db'.images = db.images \cup {img}
                /\ img.id = last'.ret
                /\ img.md5_checksum = last'.md5_checksum
                /\ \A o \in db.images : o.id # img.id
           /\ \E loc \in db'.image_locations \ db.image_locations :
                /\ db'.image_locations = db.image_locations \cup {loc}
                /\ loc.image_id = last'.ret
                /\ loc.file_path = last'.file_path
                /\ \A o \in db.image_locations : o.id # loc.id
           /\ db'.tags = db.tags
           /\ db'.image_tags = db.image_tags]_vars

\* A second image has just been added.
C3_Witness ==
    /\ last.op = "add_image"
    /\ last.exc = NoException
    /\ Cardinality(db.images) = 2
    /\ \E i \in db.images : i.id = last.ret

\* C4: in every reachable state no two rows of image_locations have the
\* same (image_id, file_path).
C4_LocationPairUnique ==
    \A l1, l2 \in db.image_locations :
        (l1.image_id = l2.image_id /\ l1.file_path = l2.file_path)
            => l1 = l2

\* The files of the last import that the loop got to before it was
\* cancelled and whose bytes could be read.
ProcessedFiles(call) ==
    {call.file_paths[i] : i \in
        {k \in 1..Len(call.file_paths) :
            k < call.cancel_at /\ call.file_paths[k].md5 # NoFile}}

\* C5: when import_files_to_db processes a file whose md5 is already in the
\* catalogue, whatever its path, the catalogue holds exactly one image with
\* that md5 afterwards.
C5_ReimportKeepsOneImage ==
    [][last'.op = "import_files_to_db"
        => \A f \in ProcessedFiles(last') :
            HashCatalogued(db, f.md5)
                => Cardinality({i \in db'.images :
                                    i.md5_checksum = f.md5}) = 1]_vars

\* An import has skipped a file whose md5 was catalogued while a second
\* image is in the catalogue.
C5_Witness ==
    /\ last.op = "import_files_to_db"
    /\ last.skipped_count > 0
    /\ Cardinality(db.images) = 2

\* C6: when import_files_to_db processes a file whose md5 is already in the
\* catalogue, from a path that image has no location row for, the image has
\* a location row for that path afterwards.
C6_ReimportAddsLocation ==
    [][last'.op = "import_files_to_db"
        => \A f \in ProcessedFiles(last') :
            \A i \in db.images :
                (i.md5_checksum = f.md5
                    /\ ~HasLocationRow(db, i.id, f.file_path))
                => HasLocationRow(db', i.id, f.file_path)]_vars

\* C7: after delete_image(id) no row of image_locations or image_tags has
\* image_id = id, images has no row with that id, and get_image_by_md5 of
\* the deleted image's hash returns None.
C7_DeleteCascades ==
    [][last'.op = "delete_image"
        => /\ \A l \in db'.image_locations : l.image_id # last'.image_id
           /\ \A it \in db'.image_tags : it.image_id # last'.image_id
           /\ \A i \in db'.images : i.id # last'.image_id
           /\ \A h \in last'.md5_checksums :
                get_image_by_md5(db', h) = None]_vars

\* An image with two locations and a tag has just been deleted.
C7_Witness ==
    /\ last.op = "delete_image"
    /\ last.exc = NoException
    /\ last.md5_checksums # {}
    /\ last.locations = 2
    /\ last.tags = 1

\* C8: a store operation in which a step raises leaves the committed
\* database exactly as it was before the call and raises one DBError.
C8_FaultRollsBack ==
    [][(last'.op # "init" /\ last'.fault # 0)
        => /\ db' = db
           /\ last'.exc = DBError]_vars

\* delete_image raised at its third DELETE, after the tag and location rows
\* of an existing image had been deleted in the transaction.
C8_Witness ==
    /\ last.op = "delete_image"
    /\ last.fault = 3
    /\ last.exc = DBError
    /\ last.md5_checksums # {}
    /\ last.locations > 0
    /\ last.tags > 0

\* C9: verify_location(image_id, path, False) removes the location rows of
\* (image_id, path) and changes nothing else: images, tags, image_tags and
\* every other location row stay as they are.
C9_EvictionFrame ==
    [][(last'.op = "verify_location" /\ ~last'.exists)
        => /\ db'.image_locations =
                {l \in db.image_locations :
                    ~(l.image_id = last'.image_id
                        /\ l.file_path = last'.file_path)}
           /\ db'.images = db.images
           /\ db'.tags = db.tags
           /\ db'.image_tags = db.image_tags
           /\ db'.sqlite_sequence = db.sqlite_sequence]_vars

\* The last location of an existing image has just been evicted while
\* another image keeps its location.
C9_Witness ==
    /\ last.op = "verify_location"
    /\ ~last.exists
    /\ last.matched > 0
    /\ \E i \in db.images : i.id = last.image_id
    /\ LocationsOf(db, last.image_id) = {}
    /\ db.image_locations # {}

\* C10: verify_location(image_id, path, False) for a pair that has no
\* location row raises nothing and leaves the whole store unchanged.
C10_EvictionIdempotent ==
    [][(last'.op = "verify_location" /\ ~last'.exists
            /\ ~HasLocationRow(db, last'.image_id, last'.file_path))
        => /\ last'.exc = NoException
           /\ db' = db]_vars

\* verify_location(.., False) found no row for a pair of an existing image,
\* after a location row had been removed from the store.
C10_Witness ==
    /\ last.op = "verify_location"
    /\ ~last.exists
    /\ last.matched = 0
    /\ last.exc = NoException
    /\ \E i \in db.images : i.id = last.image_id
    /\ db.sqlite_sequence.image_locations > Cardinality(db.image_locations)

\* How many entries of a list equal x.
Count(list, x) == Cardinality({k \in DOMAIN list : list[k] = x})

C12_AddTagGetOrCreate ==
    [][last'.op = "add_tag"
        => LET name == last'.tag_name
               old == {t \in db.tags : t.name = name}
           IN  /\ last'.exc = NoException
               /\ \E t \in db'.tags : t.name = name /\ t.id = last'.ret
               /\ old # {} => /\ db' = db
                              /\ \A t \in old : t.id = last'.ret
               /\ old = {} => /\ db'.tags = db.tags \cup
                                    {[id |-> last'.ret, name |-> name]}
                              /\ \A t \in db.tags : t.id # last'.ret
               /\ \A t, u \in db'.tags : t.name = u.name => t = u]_vars

\* add_tag was called again for the name of the first of two tags.
C12_Witness ==
    /\ last.op = "add_tag"
    /\ last.exc = NoException
    /\ Cardinality(db.tags) = 2
    /\ last.ret = 1


\* text contains q, letters compared without regard to case.
Contains(text, q) ==
    \E k \in 0..(Len(text) - Len(q)) :
        \A j \in 1..Len(q) : Lower(text[k + j]) = Lower(q[j])

\* C13: search_images(q, 'tags') returns exactly the images with a tag
\* whose name contains q, and search_images(q, 'filename') exactly the
\* images with a location whose path contains q.
C13_SearchBySubstring ==
    \A q \in Queries :
        /\ search_images(db, q, "tags") =
              {i \in db.images :
                  \E it \in db.image_tags, t \in db.tags :
                      /\ it.image_id = i.id /\ it.tag_id = t.id
                      /\ Contains(t.name, q)}
        /\ search_images(db, q, "filename") =
              {i \in db.images :
                  \E l \in LocationsOf(db, i.id) : Contains(l.file_path, q)}

\* C14: for every query, search_images(q, 'all') returns the images that
\* search_images returns for 'filename', 'tags' or 'metadata'.
C14_AllIsUnion ==
    \A q \in Queries :
        search_images(db, q, "all") =
            search_images(db, q, "filename")
                \cup search_images(db, q, "tags")
                \cup search_images(db, q, "metadata")

\* A search for "sunset" finds an image that has neither location nor tag
\* by its metadata, and another image that its metadata does not match.
C14_Witness ==
    LET q == <<"s", "u", "n", "s", "e", "t">>
        found == search_images(db, q, "all")
    IN  /\ \E i \in found :
            /\ LocationsOf(db, i.id) = {}
            /\ \A it \in db.image_tags : it.image_id # i.id
        /\ \E i \in found : i \notin search_images(db, q, "metadata")


\* C15 (as stated): get_all_images_with_tags returns every row of images
\* exactly once, and an image created later, which has the larger id,
\* never comes after an image created earlier.
C15_Original ==
    \A listing \in get_all_images_with_tags(db) :
        /\ Len(listing) = Cardinality(db.images)
        /\ \A i \in db.images :
            Cardinality({k \in DOMAIN listing : listing[k].image.id = i.id}) = 1
        /\ \A k, j \in DOMAIN listing :
            k < j => listing[k].image.id > listing[j].image.id

\* C15 (amended): get_all_images_with_tags returns every row of images
\* exactly once, and an image with a later created_at never comes after an
\* image with an earlier created_at; images with equal created_at come in
\* either order.
C15_NewestStampFirst ==
    \A listing \in get_all_images_with_tags(db) :
        /\ Len(listing) = Cardinality(db.images)
        /\ \A i \in db.images :
            Cardinality({k \in DOMAIN listing : listing[k].image.id = i.id}) = 1
        /\ \A k, j \in DOMAIN listing :
            k < j => ~Earlier(listing[k].image.created_at,
                              listing[j].image.created_at)

\* Two images created at different times are listed, the newer one first.
C15_Witness ==
    \E listing \in get_all_images_with_tags(db) :
        /\ Len(listing) = 2
        /\ Earlier(listing[2].image.created_at, listing[1].image.created_at)
        /\ listing[1].image.locations # <<>>

\* C16: a call of generate_ordered_code with no day boundary since the
\* allocator was made or last reset raises the counter by exactly 1 and
\* returns the prefix, "-" and the counter in six digits, a code none of the
\* earlier calls of the run returned; the first code is REF-000001.
C16_SequentialCodes ==
    [][(last'.op = "generate_ordered_code" /\ today = last_reset)
        => /\ counter' = counter + 1
           /\ last'.code = OrderedCode(DefaultPrefix, counter + 1)
           /\ parse_code(DefaultPrefix, PyStr(last'.code)).ret.number
                = counter + 1
           /\ \A n \in 1..counter :
                OrderedCode(DefaultPrefix, n) # last'.code
           /\ counter = 0 =>
                last'.code = <<"R", "E", "F", "-", "0", "0", "0", "0", "0", "1">>]_vars

\* The allocator has handed out its twelfth code in a row on one day.
C16_Witness ==
    /\ last.op = "generate_ordered_code"
    /\ ~last.new_day
    /\ last.before = 11
    /\ last.code = <<"R", "E", "F", "-", "0", "0", "0", "0", "1", "2">>

\* C17: when the date differs from _last_reset, generate_ordered_code
\* returns the code of counter 1 and stores the date, whatever the counter
\* was; on the stored date it counts on from the counter and leaves the
\* stored date alone.
C17_DailyReset ==
    [][last'.op = "generate_ordered_code"
        => IF today # last_reset
           THEN /\ last'.code = OrderedCode(DefaultPrefix, 1)
                /\ counter' = 1
                /\ last_reset' = today
           ELSE /\ last'.code = OrderedCode(DefaultPrefix, counter + 1)
                /\ counter' = counter + 1
                /\ last_reset' = last_reset]_vars

\* The first call after midnight found the counter at 2 or more and
\* returned the code of counter 1.
C17_Witness ==
    /\ last.op = "generate_ordered_code"
    /\ last.new_day
    /\ last.before >= 2
    /\ counter = 1
    /\ last_reset = today

\* C18: in every state reached by imports, with midnights and restarts of
\* the application between them, no two rows of images have the same
\* reference_code.
C18_ReferenceCodeUnique ==
    \A i, j \in db.images : i.reference_code = j.reference_code => i = j

\* The middle segment is four digits of a year, then a month and a day in
\* one or two digits each (the day also as a space and a digit), that are a
\* date of the calendar.
LenientDate(segment) ==
    /\ Len(segment) >= 4
    /\ \A k \in 1..4 : IsDigit(segment[k])
    /\ LET year == DecimalValue(SubSeq(segment, 1, 4))
           Forms(n) == {Decimal(n), ZeroFill(Decimal(n), 2)}
           DayForms(n) ==
               Forms(n) \cup (IF n < 10 THEN {<<" ">> \o Decimal(n)} ELSE {})
       IN  /\ year >= 1
           /\ \E month \in 1..12 :
                \E day \in 1..DaysInMonth(year, month) :
                    \E m \in Forms(month), d \in DayForms(day) :
                        SubSeq(segment, 5, Len(segment)) = m \o d

\* The middle segment is eight digits that are a date of the calendar.
EightDigitDate(segment) ==
    /\ Len(segment) = 8
    /\ \A k \in 1..8 : IsDigit(segment[k])
    /\ LET year == DecimalValue(SubSeq(segment, 1, 4))
           month == DecimalValue(SubSeq(segment, 5, 6))
           day == DecimalValue(SubSeq(segment, 7, 8))
       IN  /\ year >= 1
           /\ month \in 1..12
           /\ day \in 1..DaysInMonth(year, month)

\* C19 (as stated): parse_code gives 'ordered' exactly for two segments the
\* second of which is an integer, 'timestamp' exactly for three segments
\* the middle one of which is an eight-digit date, 'unknown' otherwise.
C19_Original ==
    (last.op = "parse_code" /\ last.code.type = "str")
        => LET parts == Split(last.code.chars, "-")
               ordered == Len(parts) = 2 /\ IntParse(parts[2]).ok
               timestamp == Len(parts) = 3 /\ EightDigitDate(parts[2])
           IN  /\ last.ret.type = "ordered" <=> ordered
               /\ last.ret.type = "timestamp" <=> timestamp
               /\ last.ret.type = "unknown" <=> ~ordered /\ ~timestamp

\* C19 (amended): parse_code gives 'ordered' exactly for two segments the
\* first of which is the prefix of the service and the second an integer,
\* 'timestamp' exactly for three segments the middle one of which is a year
\* of four digits with a month and a day of one or two digits that are a
\* date, 'unknown' otherwise.
C19_Classification ==
    (last.op = "parse_code" /\ last.code.type = "str")
        => LET parts == Split(last.code.chars, "-")
               ordered == /\ Len(parts) = 2
                          /\ parts[1] = DefaultPrefix
                          /\ IntParse(parts[2]).ok
               timestamp == Len(parts) = 3 /\ LenientDate(parts[2])
           IN  /\ last.exc = NoException
               /\ last.ret.type = "ordered" <=> ordered
               /\ last.ret.type = "timestamp" <=> timestamp
               /\ last.ret.type = "unknown" <=> ~ordered /\ ~timestamp

\* parse_code has classified "REF-2024115-12x" as a timestamp code.
C19_Witness ==
    /\ last.op = "parse_code"
    /\ last.code = PyStr(<<"R", "E", "F", "-", "2", "0", "2", "4", "1", "1", "5", "-", "1", "2", "x">>)
    /\ last.ret.type = "timestamp"

\* C20: for every value, validate_code returns True exactly when parse_code
\* does not classify the value as 'unknown', and neither of them raises.
C20_ValidateIffParsed ==
    last.op \in {"parse_code", "validate_code"}
        => /\ last.exc = NoException
           /\ parse_code(DefaultPrefix, last.code).exc = NoException
           /\ last.op = "validate_code" =>
                last.ret = (parse_code(DefaultPrefix, last.code).ret.type
                                # "unknown")



----------------------------------------------------------------------------
(* Reconciliation *)

\* the location row is in the catalogue d, whatever its verified mark
RowKept(d, l) == \E k \in d.image_locations : k.id = l.id

\* the location row is in the catalogue d and marked verified
RowVerified(d, l) ==
    \E k \in d.image_locations : k.id = l.id /\ k.is_verified

\* C21: after a call of verify_image_locations that is not cancelled and in
\* which nothing fails, every location row whose path does not exist is
\* gone, every location row whose path exists is still there and marked
\* verified, the image rows are as before, and the counts of the status
\* message add up to the number of rows scanned.
C21_ReconciliationPass ==
    [][(/\ last'.op = "verify_image_locations"
        /\ last'.cancel_at > Len(last'.locations)
        /\ last'.fail_at = 0)
        => /\ \A l \in db.image_locations :
                IF l.file_path \in last'.existing
                THEN RowVerified(db', l)
                ELSE ~RowKept(db', l)
           /\ db'.images = db.images
           /\ Len(last'.locations) > 0
                => /\ last'.report # None
                   /\ last'.report.verified + last'.report.removed
                        = Len(last'.locations)]_vars

\* C22: when verify_image_locations is cancelled before one of its rows,
\* the rows before that one are reconciled (evicted when the path does not
\* exist, kept and verified when it does), the rows from that one on are as
\* before, and the counts of the status message add up to the number of
\* rows processed.
C22_CancelledPass ==
    [][(/\ last'.op = "verify_image_locations"
        /\ last'.cancel_at <= Len(last'.locations)
        /\ last'.fail_at = 0)
        => /\ \A k \in 1..(last'.cancel_at - 1) :
                IF last'.locations[k].file_path \in last'.existing
                THEN RowVerified(db', last'.locations[k])
                ELSE ~RowKept(db', last'.locations[k])
           /\ \A k \in last'.cancel_at..Len(last'.locations) :
                last'.locations[k] \in db'.image_locations
           /\ last'.report # None
           /\ last'.report.verified + last'.report.removed
                = last'.cancel_at - 1]_vars

\* C23: when verify_location fails for one row of an uncancelled
\* verify_image_locations, no exception leaves the method, that row is as
\* before and every other row is reconciled.
C23_FailureSkipsOneRow ==
    [][(/\ last'.op = "verify_image_locations"
        /\ last'.cancel_at > Len(last'.locations)
        /\ last'.fail_at > 0)
        => /\ last'.exc = NoException
           /\ last'.locations[last'.fail_at] \in db'.image_locations
           /\ \A k \in 1..Len(last'.locations) :
                k # last'.fail_at
                    => IF last'.locations[k].file_path \in last'.existing
                       THEN RowVerified(db', last'.locations[k])
                       ELSE ~RowKept(db', last'.locations[k])]_vars


----------------------------------------------------------------------------
(* Operations on rows that are not there *)

\* C24: set_project_path, update_image_metadata, add_image_location,
\* add_tag_to_image and delete_image called with the id of an image that is
\* not catalogued raise NotFoundError and leave the catalogue as it was.
C24_UnknownImageRejected ==
    [][(/\ last'.op \in {"set_project_path", "update_image_metadata",
                         "add_image_location", "add_tag_to_image",
                         "delete_image"}
        /\ last'.image_id \notin KnownImageIds(db))
        => /\ last'.exc = "NotFoundError"
           /\ db' = db]_vars


----------------------------------------------------------------------------
(* Tags stay *)

\* The claim as it was stated: delete_image, remove_tags_for_image and
\* edit_tags leave the tags table exactly as it was.
C25_Original ==
    [][last'.op \in {"delete_image", "remove_tags_for_image", "edit_tags"}
        => db'.tags = db.tags]_vars

\* C25: delete_image and remove_tags_for_image leave the tags table as it
\* was, and edit_tags removes and alters no tag row (it may add the rows of
\* new names), also when a tag is left without any image.
C25_TagsNeverRemoved ==
    [][(last'.op \in {"delete_image", "remove_tags_for_image"}
            => db'.tags = db.tags)
       /\ (last'.op = "edit_tags" => db.tags \subseteq db'.tags)]_vars

\* An image that carried a tag has been deleted and the tag is in the
\* table with no image left for it.
C25_Witness ==
    /\ last.op = "delete_image"
    /\ last.tags > 0
    /\ \E t \in db.tags : \A it \in db.image_tags : it.tag_id # t.id


----------------------------------------------------------------------------
(* The scanning worker *)

\* the positions of run() in which a file is being processed
Processing == {"file", "match", "progress"}

\* the number of finished signals the thread has emitted
FinishedCount(t) ==
    Cardinality({k \in 1..Len(t.signals) : t.signals[k].signal = "finished"})

\* the files the thread has reported as matches
Reported(t) ==
    {t.signals[k].at : k \in {j \in 1..Len(t.signals) :
                                t.signals[j].signal = "found_match"}}

Evicted == DOMAIN last.before.cache \ DOMAIN image_cache.cache

\* C27: the preview cache is a bounded LRU cache: it never holds more than
\* max_size entries, access_order lists exactly the cached keys, each once,
\* and a call evicts an entry only when it is a put of a key that was not
\* cached into a cache that held max_size entries, and then it evicts the
\* one entry at the head of access_order, the least recently used.
C27_BoundedLru ==
    /\ Cardinality(DOMAIN image_cache.cache) <= image_cache.max_size
    /\ Len(image_cache.access_order) = Cardinality(DOMAIN image_cache.cache)
    /\ {image_cache.access_order[i] :
            i \in 1..Len(image_cache.access_order)}
         = DOMAIN image_cache.cache
    /\ (last.op \in {"get", "put"} /\ Evicted # {}) =>
            /\ last.op = "put"
            /\ last.path \notin DOMAIN last.before.cache
            /\ Cardinality(DOMAIN last.before.cache)
                    = last.before.max_size
            /\ Evicted = {Head(last.before.access_order)}

\* The tags the image_tags rows associate with an image, as the listing
\* shows a tag.
TagsAssociated(d, image_id) ==
    {[id |-> t.id, name |-> t.name] :
        t \in {t \in d.tags :
                  \E it \in d.image_tags :
                      it.image_id = image_id /\ it.tag_id = t.id}}

\* A list that holds exactly the members of a set, each once.
EachOnce(list, set) ==
    /\ Len(list) = Cardinality(set)
    /\ {list[k] : k \in DOMAIN list} = set

\* A list that holds the path of every row of a set of location rows, once
\* for each row, and nothing else.
PathOfEachRowOnce(list, rows) ==
    \A path \in {list[k] : k \in DOMAIN list}
                    \cup {l.file_path : l \in rows} :
        Cardinality({k \in DOMAIN list : list[k] = path})
            = Cardinality({l \in rows : l.file_path = path})

\* C28: in the result of get_all_images_with_tags the tag list of every
\* image holds each tag associated with the image exactly once and its
\* location list holds the path of each of its location rows exactly once,
\* however many locations and tags the image has.
C28_ListingWithoutDuplicates ==
    \A listing \in get_all_images_with_tags(db) :
        \A k \in DOMAIN listing :
            /\ EachOnce(listing[k].tags,
                        TagsAssociated(db, listing[k].image.id))
            /\ PathOfEachRowOnce(listing[k].image.locations,
                                 LocationsOf(db, listing[k].image.id))

\* C29: referential integrity holds in every reachable state: the image of
\* every location row, and the image and the tag of every image_tags row,
\* are rows that exist, whatever ids add_image_location, add_tag_to_image
\* and delete_image are called with.
C29_ReferentialIntegrity ==
    /\ \A l \in db.image_locations :
            \E i \in db.images : i.id = l.image_id
    /\ \A it \in db.image_tags :
            /\ \E i \in db.images : i.id = it.image_id
            /\ \E t \in db.tags : t.id = it.tag_id

\* C30: every code the allocator generates is accepted by its own validator:
\* for a code of generate_ordered_code, called without or with a date
\* prefix, and for a code of generate_timestamp_code, validate_code gives
\* True and parse_code gives a type other than 'unknown'.
C30_GeneratedCodesValidate ==
    last.op \in {"generate_ordered_code", "generate_timestamp_code"} =>
        /\ last.valid = TRUE
        /\ last.parsed.type # "unknown"

====
